---- MODULE Spec2Model ----
(***************************************************************************)
(* The API server of state/apiserver/apiserver.go: a tomb-supervised       *)
(* lifecycle (alive, dying, dead), the run goroutine with its listener     *)
(* closer and mongo pinger, one handler goroutine per accepted connection, *)
(* the shared wait group that drains them, the request notifier ids, the   *)
(* environment UUID validation and the login limiter.                      *)
(*                                                                         *)
(* Each action is one step of one goroutine between two accesses to shared *)
(* state (tomb, wait group, listener, globalCounter, srv.environUUID,      *)
(* limiter).  sync.WaitGroup is a counter: Add and Done change it          *)
(* atomically and Wait returns when it reads zero.  tomb.Tomb is the       *)
(* launchpad.net/tomb tomb: the reason starts as ErrStillAlive, Kill keeps *)
(* the first non-nil reason, Done is Kill(nil) followed by closing dead.   *)
(*                                                                         *)
(* And Unit.SetMeterStatus of the state package: concurrent callers build  *)
(* the operations of setMeterStatusOp and run them as one transaction,     *)
(* rebuilt from fresh state after each aborted commit, on a unit that may  *)
(* be destroyed and removed meanwhile.                                     *)
(***************************************************************************)
EXTENDS Integers, FiniteSets, Sequences, TLC

\* ------------------------------------------------------------------ bounds
\* Connections that clients open against the listener.
NConn == 2
\* Login requesters beyond the limiter's capacity (SpecLogin).
ExtraLogins == 1

\* Concurrent callers of Unit.SetMeterStatus (SpecTxn).
NWriters == 2
NUnits == 2
NBatches == 3
MaxSend == 2
NClients == 2
\* Concurrent callers of AddCharmViaAPI (SpecCharm).
NCallers == 2

\* -------------------------------------------------------- program constants
\* const loginRateLimit = 10
loginRateLimit == 10

Conns == 1..NConn
\* The connections that send Login requests (SpecLogin).
LoginConns == 1..(loginRateLimit + ExtraLogins)
\* srv.limiter, made once by NewServer; any other key would be a limiter of
\* a single connection.
SrvLimiter == 0
Limiters == {SrvLimiter} \cup LoginConns

\* tomb reasons: tomb.ErrStillAlive, nil, and the error mongoPinger returns.
ErrStillAlive == "ErrStillAlive"
NoError == "nil"
ErrPing == "error pinging mongo"
ErrDying == "ErrDying"

\* The UUID env.UUID() returns, and the scopes a client may put in the URL.
ServerUUID == "uuid-server"
OtherUUID == "uuid-other"
RequestUUIDs == {"", ServerUUID, OtherUUID}

\* Roots handed to conn.Serve, and what any request on them answers.
NoRoot == "none"
StateServerRoot == "stateServer"
ErrRootUnknownEnv == "errRoot:unknown environment"
ErrRootEnvRead == "errRoot:cannot read environment"

\* requestNotifier.tag_: no notifier yet, "<unknown>" until a login, then
\* the tag of the entity that logged in.
NoNotifier == "none"
UnknownTag == "<unknown>"
Principals == {"user-admin", "machine-0"}
\* Replies to a Login request.
LoginOk == "logged in"
LoginUnauthorized == "unauthorized"
LoginAlready == "already logged in"

\* What NewServer returns: the Server, or the error of net.Listen or of
\* tls.X509KeyPair.
ServerReturned == "server"
ErrListen == "err:listen"
ErrKeyPair == "err:keypair"

\* The calls of run and of the Handler that return an error: http.Serve,
\* lis.Close, srv.mongoPinger, srv.serveConn; and where an error can go:
\* back to a caller, into the tomb as the reason, into the log.
ErrSources == {"http.Serve", "lis.Close", "mongoPinger", "serveConn"}
ErrRoutes == {"returned", "cause", "logged"}

\* ------------------------------------------------------------ meter status
\* MeterStatusCode values.
MeterNotSet == "NOT SET"
MeterNotAvailable == "NOT AVAILABLE"
MeterGreen == "GREEN"
MeterAmber == "AMBER"
MeterRed == "RED"
\* The callers of Unit.SetMeterStatus, and the arguments they may pass.
Writers == 1..NWriters
Targets ==
    {MeterGreen, MeterAmber, MeterNotSet, MeterNotAvailable} \X {"a", "b"}
NoTarget == <<"", "">>
\* The meter status document is not in the collection.
Missing == [code |-> "missing", info |-> "missing"]
\* What SetMeterStatus returns besides nil: the code is invalid, the meter
\* status document or the unit cannot be read, the transaction was aborted
\* on every attempt.
ErrInvalidCode == "invalid meter status"
ErrDocNotFound == "cannot update meter status: not found"
ErrUnitNotFound == "unit not found"
ErrExcessiveContention == "state changing too quickly; try again soon"
\* The attempts the engine makes before it gives up.
MaxAttempts == 3

\* ------------------------------------------------------ requested networks
\* The global keys of a service and of a machine, and the lists of networks
\* they may have been created with.
NetIds == {"s#wordpress", "m#0"}
NetworkLists == {<<>>, <<"net1">>, <<"net1", "net2">>}
\* No document under the id, as in a legacy database.
NoNetworksDoc == [exists |-> FALSE, networks |-> <<>>]
\* The errors of FindId(id).One(&doc): mgo.ErrNotFound, or any other.
ErrNotFound == "not found"
ErrQuery == "query failed"
\* readRequestedNetworks has not been called.
NoRead == [id |-> "", found |-> "none", networks |-> <<>>, err |-> "none"]

\* ---------------------------------------------------------- metric batches
\* The unit of the tests and its charm; the uuids of the batches; the
\* creation times (to the second) and the metrics AddMetrics is given.
UnitName == "wordpress/0"
UnitCharmURL == "local:quantal/quantal-wordpress-3"
BatchIds == 1..NBatches
Times == {"12:00:00", "12:00:01"}
MetricLists == {<<[key |-> "item", value |-> "5"]>>,
                <<[key |-> "item", value |-> "5"],
                  [key |-> "item", value |-> "7"]>>}
\* No batch under the uuid.
NoBatch == [stored |-> FALSE, unit |-> "", charmUrl |-> "", created |-> "",
            sent |-> FALSE, metrics |-> <<>>]
\* AddMetrics has not been called.
NoAdd == [uuid |-> 0, err |-> "none", created |-> "", metrics |-> <<>>]
\* The errors of AddMetrics and of MetricBatch.
ErrMetricUnitNotFound == "wordpress/0 not found"
ErrBatchNotFound == "metric batch not found"
\* The values of n MetricsToSend is called with.
SendSizes == 1..MaxSend

\* ------------------------------------------------------------ AddCharmViaAPI
Callers == 1..NCallers
\* curl.Schema: the two schemas the switch knows, and one it does not.
Schemas == {"local", "cs", "bzr"}
\* The revisions of a charm URL; AddLocalCharm returns the URL of the charm
\* in state, whose revision the server chooses.
Revisions == {0, 1}
CharmURLs == [schema : Schemas, rev : {0}]
\* An error value: its message and the code params.ErrCode finds in it.
NilErr == [msg |-> "nil", code |-> ""]
CodeUnauthorized == "unauthorized access"
ErrUnauthorizedCharm == [msg |-> "unauthorized", code |-> CodeUnauthorized]
ErrCharmNotFound == [msg |-> "charm not found", code |-> "not found"]
ErrRepoGet == [msg |-> "cannot get charm", code |-> ""]
ErrUpload == [msg |-> "cannot upload charm", code |-> ""]
ErrMacaroon == [msg |-> "cannot get macaroon", code |-> ""]
ErrUnsupportedSchema == [msg |-> "unsupported charm URL schema", code |-> ""]
NoURL == [schema |-> "", rev |-> 0]
NoCall == [pc |-> "idle", curl |-> NoURL, calls |-> <<>>, result |-> NoURL,
           err |-> NilErr, info |-> FALSE]

\* ------------------------------------------------------------ local storage
\* The clients of one storage server; the stores: the server's and, were
\* it to keep one, that of each client.
Clients == 1..NClients
ServerStore == 0
StoreIds == {ServerStore} \cup Clients
\* The names of the test, "aa", "zzz/aa" and "zzz/bb", the prefixes it
\* lists, "", "a" and "zzz/", as sequences of characters, and the
\* contents: an empty file, a file with data.
Names == {<<"a", "a">>, <<"z", "z", "z", "/", "a", "a">>,
          <<"z", "z", "z", "/", "b", "b">>}
Prefixes == {<<>>, <<"a">>, <<"z", "z", "z", "/">>}
Contents == {"", "File contents."}
NoFile == [exists |-> FALSE, data |-> "", by |-> 0]
ErrFileNotFound == "file not found"
\* No storage call yet.
NoOp == [client |-> 0, op |-> "none", name |-> <<>>, data |-> "",
         names |-> <<>>, err |-> "none"]

\* The units of the services, for SetMeterStatusOnAllUnits.
Units == 1..NUnits
\* What SetMeterStatusOnAllUnits returns besides nil: the error of
\* AllServices or AllUnits, the error of the aborted transaction.
ErrStoreRead == "cannot read from the store"
ErrAborted == "cannot set meter state for all units: transaction aborted"

VARIABLES
    tomb,           \* srv.tomb: [reason, dying, dead]
    wg,             \* srv.wg: the wait group's counter
    lisClosed,      \* the listener has been closed
    runPc,          \* position of Server.run
    closerPc,       \* position of run's first goroutine (closes the listener)
    pingerPc,       \* position of run's second goroutine (mongoPinger)
    pingerErr,      \* that goroutine's err := srv.mongoPinger()
    hPc,            \* position of each connection's handler goroutine
    envUUID,        \* the :envuuid of each connection's URL
    connId,         \* requestNotifier.id of each connection (0: none yet)
    root,           \* the root conn.Serve was given
    req,            \* the connection's request: "none", "inflight", or
                    \* the reply its last request got
    tag,            \* requestNotifier.tag_ of each connection: its principal
    globalCounter,  \* var globalCounter int64
    srvEnvironUUID, \* srv.environUUID
    stopPc,         \* a caller of Stop(): idle, waiting, returned
    stopResult,     \* what Stop() returned
    waitResult,     \* what Wait() returned
    arrivedDying,   \* history: the tomb was dying when http.Serve accepted
                    \* the connection
    loginPc,        \* the Login request of each connection: idle (none),
                    \* waiting (for a limiter slot), servicing
    limiter,        \* slots taken of each limiter; SrvLimiter is srv.limiter
    newSrv,         \* the call of NewServer: its position, its inputs (can
                    \* the address be bound, is the key pair valid), the
                    \* listener and what it returned
    unitLife,       \* the unit's document in the units collection: its
                    \* life, or removed
    meterDoc,       \* the unit's document in the meter status collection:
                    \* [code, info], or missing
    wPc,            \* position of each caller of Unit.SetMeterStatus
    wTarget,        \* its arguments <<codeRaw, info>>
    wAttempt,       \* the attempt of its transaction
    wResult,        \* what the call returned
    wWrote,         \* history: the call's transaction has been applied
    unitsC,         \* the units collection: the life of each unit of the
                    \* services, or removed
    meterStatusC,   \* the meter status collection: the document of each
                    \* unit, or missing
    bulkPc,         \* position of the caller of SetMeterStatusOnAllUnits
    bulkArg,        \* its arguments <<codeRaw, info>>
    bulkUnits,      \* the units its operations were built for
    bulkResult,     \* what the call returned
    bulkTrips,      \* history: the transactions it sent to the store
    requestedNetworks, \* the requested networks collection: the document
                    \* of each service or machine, [exists, networks]
    netRead,        \* the last call of readRequestedNetworks: its id, the
                    \* error of the query, and the networks and the error it
                    \* returned
    netTxn,         \* the last transaction on the requested networks: its
                    \* operation, its id and its error
    netLog,         \* the ids readRequestedNetworks has written to the log
    metricsC,       \* the metrics collection: the batch stored under each
                    \* uuid, or none
    addResult,      \* the last call of AddMetrics: its arguments, the uuid
                    \* of the batch and the error it returned
    addedCount,     \* history: the calls of AddMetrics that returned a batch
    snd,            \* the sender of the metrics: its position, its n, the
                    \* unsent and the stored batches when it began, the
                    \* rounds it has made, what MetricsToSend last returned
    files,          \* local storage: the files of each store, by name,
                    \* [exists, data, by]; the store 0 is the server's
    shadow,         \* history: the name-to-contents map that the Puts,
                    \* Removes and RemoveAlls of all the clients make
    lastOp,         \* the last storage call: its client, operation, name
                    \* or prefix, and the data, names and error it returned
    charm,          \* AddCharmViaAPI, by caller: its position, the URL it
                    \* was given, the calls it has made with the error of
                    \* each, the URL and the error it returned, and whether
                    \* it has printed the added charm
    errRoute        \* history: where the error value of each call of the
                    \* server that returns one has gone, once it returned

serverVars == <<tomb, wg, lisClosed, runPc, closerPc, pingerPc, pingerErr,
                stopPc, stopResult, waitResult>>
connVars == <<hPc, envUUID, connId, root, req, tag, globalCounter,
              srvEnvironUUID, arrivedDying>>
loginVars == <<loginPc, limiter>>
txnVars == <<unitLife, meterDoc, wPc, wTarget, wAttempt, wResult, wWrote>>
bulkVars == <<unitsC, meterStatusC, bulkPc, bulkArg, bulkUnits, bulkResult,
              bulkTrips>>
netVars == <<requestedNetworks, netRead, netTxn, netLog>>
metricVars == <<metricsC, addResult, addedCount, snd>>
storageVars == <<files, shadow, lastOp>>
charmVars == <<charm>>
storeVars == <<bulkVars, netVars, metricVars, storageVars, charmVars>>
vars == <<serverVars, connVars, loginVars, newSrv, txnVars, storeVars,
          errRoute>>

\* ------------------------------------------------------------------- tomb
Alive == tomb.reason = ErrStillAlive
Dying == tomb.dying
Dead == tomb.dead

\* Mutant: Kill keeps the first reason it is given, a nil one included.
TombKill_FirstCall(t, reason) ==
    IF reason = ErrDying THEN t
    ELSE [t EXCEPT !.reason = IF t.reason = ErrStillAlive
                              THEN reason ELSE t.reason,
                   !.dying = TRUE]

\* Mutant: Kill records its reason over the one already recorded.
TombKill_Overwrite(t, reason) ==
    IF reason = ErrDying THEN t
    ELSE [t EXCEPT !.reason = reason, !.dying = TRUE]

\* tomb.Kill(reason): Kill(ErrDying) changes nothing; otherwise the reason is
\* recorded if none is (nil or ErrStillAlive), and dying is closed.
TombKill(t, reason) ==
    IF reason = ErrDying THEN t
    ELSE [t EXCEPT !.reason = IF t.reason \in {NoError, ErrStillAlive}
                              THEN reason ELSE t.reason,
                   !.dying = TRUE]

\* tomb.Done(): Kill(nil), then close(dead).
TombDone(t) == [TombKill(t, NoError) EXCEPT !.dead = TRUE]

\* tomb.Wait() once dead is closed: the reason.
TombWait(t) == t.reason

\* ------------------------------------------------------------- wait group
\* srv.wg.Add(1) and srv.wg.Done() on the counter.
WgAdd(n) == n + 1
WgDone(n) == n - 1

\* ----------------------------------------------------------------- errors
\* Mutant: the goroutine drops the error: srv.tomb.Kill(nil).
KillCause_Dropped(err) == NoError

\* The goroutine passes the error of mongoPinger on: srv.tomb.Kill(err).
KillCause(err) == err

\* Where the errors of run's calls go.  lis.Close(): the value is dropped.
LisCloseErrRoute == {}

\* "The error from http.Serve is not interesting": the value is dropped.
ServeErrRoute == {}

\* mongoPinger logs the error of session.Ping() and returns it; the
\* goroutine passes it to srv.tomb.Kill.
PingErrRoute(err) ==
    {"logged"} \cup (IF KillCause(err) = err THEN {"cause"} ELSE {})

\* Mutant: the Handler drops the error of serveConn.
HandlerErrRoute_Ignored == {}

\* if err := srv.serveConn(...); err != nil { logger.Errorf(...) }
HandlerErrRoute == {"logged"}

\* ------------------------------------------------------------------- Init
\* Everything but the call of NewServer and the run goroutine it starts:
\* the zero Server (tomb, wait group, environUUID) with its fresh limiter,
\* nobody connected, and the store with the unit alive and its meter status
\* document as created with the unit.
Constructed ==
    /\ tomb = [reason |-> ErrStillAlive, dying |-> FALSE, dead |-> FALSE]
    /\ wg = 0
    /\ lisClosed = FALSE
    /\ closerPc = "none"
    /\ pingerPc = "none"
    /\ pingerErr = "none"
    /\ hPc = [c \in Conns |-> "idle"]
    /\ envUUID = [c \in Conns |-> ""]
    /\ connId = [c \in Conns |-> 0]
    /\ root = [c \in Conns |-> NoRoot]
    /\ req = [c \in Conns |-> "none"]
    /\ tag = [c \in Conns |-> NoNotifier]
    /\ globalCounter = 0
    /\ srvEnvironUUID = ""
    /\ stopPc = "idle"
    /\ stopResult = "pending"
    /\ waitResult = "pending"
    /\ arrivedDying = [c \in Conns |-> FALSE]
    /\ loginPc = [c \in LoginConns |-> "idle"]
    /\ limiter = [l \in Limiters |-> 0]
    /\ unitLife = "alive"
    /\ meterDoc = [code |-> MeterNotSet, info |-> ""]
    /\ wPc = [w \in Writers |-> "idle"]
    /\ wTarget = [w \in Writers |-> NoTarget]
    /\ wAttempt = [w \in Writers |-> 0]
    /\ wResult = [w \in Writers |-> "pending"]
    /\ wWrote = [w \in Writers |-> FALSE]
    /\ unitsC = [u \in Units |-> "alive"]
    /\ meterStatusC = [u \in Units |-> [code |-> MeterNotSet, info |-> ""]]
    /\ bulkPc = "idle"
    /\ bulkArg = NoTarget
    /\ bulkUnits = {}
    /\ bulkResult = "pending"
    /\ bulkTrips = 0
    /\ requestedNetworks = [id \in NetIds |-> NoNetworksDoc]
    /\ netRead = NoRead
    /\ netLog = {}
    /\ netTxn = [op |-> "none", id |-> "", err |-> "none"]
    /\ files = [st \in StoreIds |-> [n \in Names |-> NoFile]]
    /\ shadow = [n \in Names |-> NoFile]
    /\ lastOp = NoOp
    /\ charm = [c \in Callers |-> NoCall]
    /\ metricsC = [b \in BatchIds |-> NoBatch]
    /\ addResult = NoAdd
    /\ addedCount = 0
    /\ snd = [pc |-> "idle", n |-> 0, orig |-> {}, all |-> {}, rounds |-> 0,
              got |-> {}]
    /\ errRoute = [e \in ErrSources |-> [seen |-> FALSE, to |-> {}]]

\* The state NewServer returns in: the listener is bound, run has been
\* started as a goroutine and has not taken a step, nobody is connected.
Init ==
    /\ Constructed
    /\ runPc = "start"
    /\ newSrv = [pc |-> "returned", result |-> ServerReturned,
                 lis |-> "bound", addrFree |-> TRUE, certValid |-> TRUE]

\* The state NewServer is called in, for every input: the address can be
\* bound or not, the certificate and key are a valid pair or not.
InitNew ==
    /\ Constructed
    /\ runPc = "none"
    /\ newSrv \in [pc : {"listen"}, result : {"pending"}, lis : {"unbound"},
                    addrFree : BOOLEAN, certValid : BOOLEAN]

\* -------------------------------------------------------------- NewServer
\* NewServer has returned a Server: its methods can be called.
HasServer == newSrv.result = ServerReturned

\* lis, err := net.Listen("tcp", addr); if err != nil { return nil, err }
NewListen ==
    /\ newSrv.pc = "listen"
    /\ newSrv' = IF newSrv.addrFree
                 THEN [newSrv EXCEPT !.lis = "bound", !.pc = "keypair"]
                 ELSE [newSrv EXCEPT !.result = ErrListen, !.pc = "returned"]
    /\ UNCHANGED <<serverVars, connVars, loginVars, txnVars, storeVars,
                   errRoute>>

\* Mutant: the error of tls.X509KeyPair is ignored.
NewKeyPair_Unchecked ==
    /\ newSrv.pc = "keypair"
    /\ newSrv' = [newSrv EXCEPT !.pc = "go"]
    /\ UNCHANGED <<serverVars, connVars, loginVars, txnVars, storeVars,
                   errRoute>>

\* tlsCert, err := tls.X509KeyPair(cert, key); if err != nil { return nil,
\* err }: the listener stays bound.
NewKeyPair ==
    /\ newSrv.pc = "keypair"
    /\ newSrv' = IF newSrv.certValid
                 THEN [newSrv EXCEPT !.pc = "go"]
                 ELSE [newSrv EXCEPT !.result = ErrKeyPair, !.pc = "returned"]
    /\ UNCHANGED <<serverVars, connVars, loginVars, txnVars, storeVars,
                   errRoute>>

\* srv := &Server{...}; lis = tls.NewListener(...); go srv.run(lis);
\* return srv, nil
NewGo ==
    /\ newSrv.pc = "go"
    /\ runPc = "none"
    /\ runPc' = "start"
    /\ newSrv' = [newSrv EXCEPT !.result = ServerReturned, !.pc = "returned"]
    /\ UNCHANGED <<tomb, wg, lisClosed, closerPc, pingerPc, pingerErr, stopPc,
                   stopResult, waitResult, connVars, loginVars, txnVars,
                   storeVars, errRoute>>

\* ------------------------------------------------------ Stop, Kill, Wait
\* Stop(): srv.tomb.Kill(nil), then block in srv.tomb.Wait().
StopCall ==
    /\ HasServer
    /\ stopPc = "idle"
    /\ tomb' = TombKill(tomb, NoError)
    /\ stopPc' = "waiting"
    /\ UNCHANGED <<wg, lisClosed, runPc, closerPc, pingerPc, pingerErr,
                   stopResult, waitResult, connVars, loginVars, newSrv,
                   txnVars, storeVars, errRoute>>

\* Mutant: Stop returns the tomb's reason without waiting for dead.
StopReturn_NoWait ==
    /\ stopPc = "waiting"
    /\ stopResult' = TombWait(tomb)
    /\ stopPc' = "returned"
    /\ UNCHANGED <<tomb, wg, lisClosed, runPc, closerPc, pingerPc, pingerErr,
                   waitResult, connVars, loginVars, newSrv, txnVars,
                   storeVars, errRoute>>

\* Stop(): srv.tomb.Wait() returns once dead is closed.
StopReturn ==
    /\ stopPc = "waiting"
    /\ Dead
    /\ stopResult' = TombWait(tomb)
    /\ stopPc' = "returned"
    /\ UNCHANGED <<tomb, wg, lisClosed, runPc, closerPc, pingerPc, pingerErr,
                   waitResult, connVars, loginVars, newSrv, txnVars,
                   storeVars, errRoute>>

\* Kill(): srv.tomb.Kill(nil); it does not block.
KillCall ==
    /\ HasServer
    /\ tomb' = TombKill(tomb, NoError)
    /\ UNCHANGED <<wg, lisClosed, runPc, closerPc, pingerPc, pingerErr,
                   stopPc, stopResult, waitResult, connVars, loginVars,
                   newSrv, txnVars, storeVars, errRoute>>

\* Wait(): srv.tomb.Wait() returns once dead is closed.
WaitReturn ==
    /\ Dead
    /\ waitResult = "pending"
    /\ waitResult' = TombWait(tomb)
    /\ UNCHANGED <<tomb, wg, lisClosed, runPc, closerPc, pingerPc, pingerErr,
                   stopPc, stopResult, connVars, loginVars, newSrv, txnVars,
                   storeVars, errRoute>>

\* ------------------------------------------------------------- Server.run
\* srv.wg.Add(1); go func() { <-Dying; lis.Close(); wg.Done() }()
RunStartCloser ==
    /\ runPc = "start"
    /\ wg' = WgAdd(wg)
    /\ closerPc' = "waiting"
    /\ runPc' = "closerStarted"
    /\ UNCHANGED <<tomb, lisClosed, pingerPc, pingerErr, stopPc, stopResult,
                   waitResult, connVars, loginVars, newSrv, txnVars,
                   storeVars, errRoute>>

\* srv.wg.Add(1); go func() { err := mongoPinger(); Kill(err); wg.Done() }()
\* then the mux is built and http.Serve(lis, mux) starts accepting.
RunStartPinger ==
    /\ runPc = "closerStarted"
    /\ wg' = WgAdd(wg)
    /\ pingerPc' = "select"
    /\ runPc' = "serve"
    /\ UNCHANGED <<tomb, lisClosed, closerPc, pingerErr, stopPc, stopResult,
                   waitResult, connVars, loginVars, newSrv, txnVars,
                   storeVars, errRoute>>

\* http.Serve returns when Accept fails on the closed listener.
RunServeReturn ==
    /\ runPc = "serve"
    /\ lisClosed
    /\ runPc' = "wait"
    /\ errRoute' = [errRoute EXCEPT
                      !["http.Serve"] = [seen |-> TRUE, to |-> ServeErrRoute]]
    /\ UNCHANGED <<tomb, wg, lisClosed, closerPc, pingerPc, pingerErr, stopPc,
                   stopResult, waitResult, connVars, loginVars, newSrv,
                   txnVars, storeVars>>

\* Mutant: run does not wait for the counter.
WgWaitReturns_NoWait(n) == TRUE

\* srv.wg.Wait() returns when the counter is zero.
WgWaitReturns(n) == n = 0

\* defer srv.wg.Wait(): wait for any outstanding requests to complete.
RunWait ==
    /\ runPc = "wait"
    /\ WgWaitReturns(wg)
    /\ runPc' = "waited"
    /\ UNCHANGED <<tomb, wg, lisClosed, closerPc, pingerPc, pingerErr, stopPc,
                   stopResult, waitResult, connVars, loginVars, newSrv,
                   txnVars, storeVars, errRoute>>

\* defer srv.tomb.Done()
RunDone ==
    /\ runPc = "waited"
    /\ tomb' = TombDone(tomb)
    /\ runPc' = "done"
    /\ UNCHANGED <<wg, lisClosed, closerPc, pingerPc, pingerErr, stopPc,
                   stopResult, waitResult, connVars, loginVars, newSrv,
                   txnVars, storeVars, errRoute>>

\* Mutant: the first goroutine closes the listener without waiting.
CloserClose_Eager ==
    /\ closerPc = "waiting"
    /\ lisClosed' = TRUE
    /\ closerPc' = "closed"
    /\ errRoute' = [errRoute EXCEPT
                      !["lis.Close"] = [seen |-> TRUE, to |-> LisCloseErrRoute]]
    /\ UNCHANGED <<tomb, wg, runPc, pingerPc, pingerErr, stopPc, stopResult,
                   waitResult, connVars, loginVars, newSrv, txnVars,
                   storeVars>>

\* The first goroutine: <-srv.tomb.Dying(); lis.Close()
CloserClose ==
    /\ closerPc = "waiting"
    /\ Dying
    /\ lisClosed' = TRUE
    /\ closerPc' = "closed"
    /\ errRoute' = [errRoute EXCEPT
                      !["lis.Close"] = [seen |-> TRUE, to |-> LisCloseErrRoute]]
    /\ UNCHANGED <<tomb, wg, runPc, pingerPc, pingerErr, stopPc, stopResult,
                   waitResult, connVars, loginVars, newSrv, txnVars,
                   storeVars>>

\* The first goroutine: srv.wg.Done()
CloserDone ==
    /\ closerPc = "closed"
    /\ wg' = WgDone(wg)
    /\ closerPc' = "done"
    /\ UNCHANGED <<tomb, lisClosed, runPc, pingerPc, pingerErr, stopPc,
                   stopResult, waitResult, connVars, loginVars, newSrv,
                   txnVars, storeVars, errRoute>>

\* ------------------------------------------------------------ mongoPinger
\* select { case <-timer.C: ... }: the timer has fired; Ping is called.
PingerTimer ==
    /\ pingerPc = "select"
    /\ pingerPc' = "ping"
    /\ UNCHANGED <<tomb, wg, lisClosed, runPc, closerPc, pingerErr, stopPc,
                   stopResult, waitResult, connVars, loginVars, newSrv,
                   txnVars, storeVars, errRoute>>

\* select { case <-srv.tomb.Dying(): return tomb.ErrDying }, and the
\* goroutine's srv.tomb.Kill(err) with that error.
PingerDying ==
    /\ pingerPc = "select"
    /\ Dying
    /\ pingerErr' = ErrDying
    /\ tomb' = TombKill(tomb, KillCause(pingerErr'))
    /\ pingerPc' = "killed"
    /\ UNCHANGED <<wg, lisClosed, runPc, closerPc, stopPc, stopResult,
                   waitResult, connVars, loginVars, newSrv, txnVars,
                   storeVars, errRoute>>

\* session.Ping() succeeds: timer.Reset(mongoPingInterval), loop.
PingOk ==
    /\ pingerPc = "ping"
    /\ pingerPc' = "select"
    /\ UNCHANGED <<tomb, wg, lisClosed, runPc, closerPc, pingerErr, stopPc,
                   stopResult, waitResult, connVars, loginVars, newSrv,
                   txnVars, storeVars, errRoute>>

\* session.Ping() fails: mongoPinger returns the error and the goroutine
\* calls srv.tomb.Kill(err).
PingFail ==
    /\ pingerPc = "ping"
    /\ pingerErr' = ErrPing
    /\ tomb' = TombKill(tomb, KillCause(pingerErr'))
    /\ pingerPc' = "killed"
    /\ errRoute' = [errRoute EXCEPT
                      !["mongoPinger"] =
                          [seen |-> TRUE, to |-> PingErrRoute(pingerErr')]]
    /\ UNCHANGED <<wg, lisClosed, runPc, closerPc, stopPc, stopResult,
                   waitResult, connVars, loginVars, newSrv, txnVars,
                   storeVars>>

\* The second goroutine: srv.wg.Done()
PingerDone ==
    /\ pingerPc = "killed"
    /\ wg' = WgDone(wg)
    /\ pingerPc' = "done"
    /\ UNCHANGED <<tomb, lisClosed, runPc, closerPc, pingerErr, stopPc,
                   stopResult, waitResult, connVars, loginVars, newSrv,
                   txnVars, storeVars, errRoute>>

\* ------------------------------------------------- connections: apiHandler
\* http.Serve accepts a connection from the open listener and starts its
\* goroutine; the client chose the :envuuid of the URL.  Connections are
\* numbered in the order the listener accepts them.
HttpAccept(c, uuid) ==
    /\ runPc = "serve"
    /\ ~lisClosed
    /\ hPc[c] = "idle"
    /\ \A d \in Conns : d < c => hPc[d] # "idle"
    /\ envUUID' = [envUUID EXCEPT ![c] = uuid]
    /\ hPc' = [hPc EXCEPT ![c] = "accepted"]
    /\ arrivedDying' = [arrivedDying EXCEPT ![c] = Dying]
    /\ UNCHANGED <<serverVars, connId, root, req, tag, globalCounter,
                   srvEnvironUUID, loginVars, newSrv, txnVars, storeVars,
                   errRoute>>

\* atomic.AddInt64(&globalCounter, 1): the new value of the counter.
AtomicAddInt64(counter, delta) == counter + delta

\* Mutant: the increment is lost (a read and a write instead of one atomic
\* add): the id is taken, globalCounter keeps its value.
NewRequestNotifier_LostUpdate(c) ==
    /\ hPc[c] = "accepted"
    /\ connId' = [connId EXCEPT ![c] = AtomicAddInt64(globalCounter, 1)]
    /\ tag' = [tag EXCEPT ![c] = UnknownTag]
    /\ hPc' = [hPc EXCEPT ![c] = "joined"]
    /\ UNCHANGED <<serverVars, envUUID, root, req, globalCounter,
                   srvEnvironUUID, arrivedDying, loginVars, newSrv, txnVars,
                   storeVars, errRoute>>

\* reqNotifier := newRequestNotifier(): id is the incremented globalCounter.
NewRequestNotifier(c) ==
    /\ hPc[c] = "accepted"
    /\ globalCounter' = AtomicAddInt64(globalCounter, 1)
    /\ connId' = [connId EXCEPT ![c] = globalCounter']
    /\ tag' = [tag EXCEPT ![c] = UnknownTag]
    /\ hPc' = [hPc EXCEPT ![c] = "joined"]
    /\ UNCHANGED <<serverVars, envUUID, root, req, srvEnvironUUID,
                   arrivedDying, loginVars, newSrv, txnVars, storeVars,
                   errRoute>>

\* wsServer.ServeHTTP fails the websocket handshake: Handler is never
\* called, and apiHandler returns through reqNotifier.leave().
HandshakeFail(c) ==
    /\ hPc[c] = "joined"
    /\ hPc' = [hPc EXCEPT ![c] = "left"]
    /\ UNCHANGED <<serverVars, envUUID, connId, root, req, tag, globalCounter,
                   srvEnvironUUID, arrivedDying, loginVars, newSrv, txnVars,
                   storeVars, errRoute>>

\* Mutant: the Handler does not register with the wait group.
HandlerAdd_NoRegister(c) ==
    /\ hPc[c] = "joined"
    /\ hPc' = [hPc EXCEPT ![c] = "added"]
    /\ UNCHANGED <<serverVars, envUUID, connId, root, req, tag, globalCounter,
                   srvEnvironUUID, arrivedDying, loginVars, newSrv, txnVars,
                   storeVars, errRoute>>

\* Handler: srv.wg.Add(1); defer srv.wg.Done()
HandlerAdd(c) ==
    /\ hPc[c] = "joined"
    /\ wg' = WgAdd(wg)
    /\ hPc' = [hPc EXCEPT ![c] = "added"]
    /\ UNCHANGED <<tomb, lisClosed, runPc, closerPc, pingerPc, pingerErr,
                   stopPc, stopResult, waitResult, envUUID, connId, root, req,
                   tag, globalCounter, srvEnvironUUID, arrivedDying,
                   loginVars, newSrv, txnVars, storeVars, errRoute>>

\* Mutant: the Handler serves without looking at the tomb.
HandlerSeesAlive_Unchecked == TRUE

\* Mutant: the Handler only refuses a dead server, not a dying one.
HandlerSeesAlive_NotDead == ~tomb.dead

\* srv.tomb.Err() == tomb.ErrStillAlive
HandlerSeesAlive == tomb.reason = ErrStillAlive

\* Handler: if srv.tomb.Err() != tomb.ErrStillAlive { return }; otherwise
\* go on to serveConn.
HandlerCheck(c) ==
    /\ hPc[c] = "added"
    /\ hPc' = [hPc EXCEPT ![c] = IF HandlerSeesAlive THEN "validate"
                                 ELSE "refused"]
    /\ UNCHANGED <<serverVars, envUUID, connId, root, req, tag, globalCounter,
                   srvEnvironUUID, arrivedDying, loginVars, newSrv, txnVars,
                   storeVars, errRoute>>

\* ------------------------------------------- serveConn: validateEnvironUUID
\* Mutant: validateEnvironUUID refuses the empty scope like any other.
ValidateResult_EmptyRefused(env, uuid) ==
    IF env # uuid \/ env = "" THEN ErrRootUnknownEnv ELSE NoError

\* Mutant: validateEnvironUUID never compares the scopes.
ValidateResult_NoCompare(env, uuid) == NoError

\* The error of validateEnvironUUID(envUUID) once srv.environUUID holds uuid.
ValidateResult(env, uuid) ==
    IF env = "" THEN NoError
    ELSE IF env # uuid THEN ErrRootUnknownEnv
    ELSE NoError

\* serveConn: conn.Serve(&errRoot{err}) on an error, otherwise
\* conn.Serve(newStateServer(...)).
RootOf(err) == IF err = NoError THEN StateServerRoot ELSE err

\* serveConn: conn.Serve(root, serverError); conn.Start()
ConnServe(c, err) ==
    /\ root' = [root EXCEPT ![c] = RootOf(err)]
    /\ hPc' = [hPc EXCEPT ![c] = "serving"]

\* Some handler is in the middle of the store srv.environUUID = env.UUID()
\* over the empty string: the field is written without synchronisation, so
\* a concurrent reader may see the new length, and the data pointer or not.
StoreInProgress == \E d \in Conns : hPc[d] = "writing"

\* validateEnvironUUID up to its store to srv.environUUID, or to its return
\* when it does not store.
ServeConnValidate(c) ==
    /\ hPc[c] = "validate"
    /\ \/ /\ envUUID[c] = ""
          /\ ConnServe(c, ValidateResult(envUUID[c], srvEnvironUUID))
       \/ \* srv.environUUID == "": env, err := srv.state.Environment()
          /\ envUUID[c] # ""
          /\ srvEnvironUUID = ""
          /\ \/ ConnServe(c, ErrRootEnvRead)
             \/ /\ hPc' = [hPc EXCEPT ![c] = "writing"]
                /\ root' = root
       \/ \* srv.environUUID is read as set: compare
          /\ envUUID[c] # ""
          /\ \/ srvEnvironUUID # ""
             \/ StoreInProgress
          /\ \/ ConnServe(c, ValidateResult(envUUID[c], ServerUUID))
             \/ \* length read, data pointer not yet stored: the comparison
                \* dereferences nil and the handler panics out
                /\ srvEnvironUUID = ""
                /\ hPc' = [hPc EXCEPT ![c] = "exiting"]
                /\ root' = root
    /\ UNCHANGED <<serverVars, envUUID, connId, req, tag, globalCounter,
                   srvEnvironUUID, arrivedDying, loginVars, newSrv, txnVars,
                   storeVars, errRoute>>

\* validateEnvironUUID: srv.environUUID = env.UUID(), then the comparison.
ServeConnStore(c) ==
    /\ hPc[c] = "writing"
    /\ srvEnvironUUID' = ServerUUID
    /\ ConnServe(c, ValidateResult(envUUID[c], srvEnvironUUID'))
    /\ UNCHANGED <<serverVars, envUUID, connId, req, tag, globalCounter,
                   arrivedDying, loginVars, newSrv, txnVars, storeVars,
                   errRoute>>

\* ------------------------------------------------ serveConn: the rpc conn
\* What a request answers on the root: the facade serves it on the state
\* server root, errRoot answers its error to every request.
RootReply(r) == IF r = StateServerRoot THEN "served" ELSE r

\* The started conn reads a request and dispatches it.
RequestDispatch(c) ==
    /\ hPc[c] = "serving"
    /\ req[c] # "inflight"
    /\ req' = [req EXCEPT ![c] = "inflight"]
    /\ UNCHANGED <<serverVars, hPc, envUUID, connId, root, tag, globalCounter,
                   srvEnvironUUID, arrivedDying, loginVars, newSrv, txnVars,
                   storeVars, errRoute>>

\* The request completes and its reply is written.
RequestComplete(c) ==
    /\ req[c] = "inflight"
    /\ req' = [req EXCEPT ![c] = RootReply(root[c])]
    /\ UNCHANGED <<serverVars, hPc, envUUID, connId, root, tag, globalCounter,
                   srvEnvironUUID, arrivedDying, loginVars, newSrv, txnVars,
                   storeVars, errRoute>>

\* select { case <-conn.Dead(): }: the client went away or the transport
\* failed; serveConn goes on to conn.Close().
SelectConnDead(c) ==
    /\ hPc[c] = "serving"
    /\ hPc' = [hPc EXCEPT ![c] = "closing"]
    /\ UNCHANGED <<serverVars, envUUID, connId, root, req, tag, globalCounter,
                   srvEnvironUUID, arrivedDying, loginVars, newSrv, txnVars,
                   storeVars, errRoute>>

\* Mutant: serveConn waits for the tomb to be dead instead of dying.
SelectDying_WaitsForDead(c) ==
    /\ hPc[c] = "serving"
    /\ Dead
    /\ hPc' = [hPc EXCEPT ![c] = "closing"]
    /\ UNCHANGED <<serverVars, envUUID, connId, root, req, tag, globalCounter,
                   srvEnvironUUID, arrivedDying, loginVars, newSrv, txnVars,
                   storeVars, errRoute>>

\* select { case <-srv.tomb.Dying(): }: serveConn goes on to conn.Close().
SelectDying(c) ==
    /\ hPc[c] = "serving"
    /\ Dying
    /\ hPc' = [hPc EXCEPT ![c] = "closing"]
    /\ UNCHANGED <<serverVars, envUUID, connId, root, req, tag, globalCounter,
                   srvEnvironUUID, arrivedDying, loginVars, newSrv, txnVars,
                   storeVars, errRoute>>

\* The error serveConn returns when the connection failed.
ErrServe == "error serving RPCs"

\* Mutant: the Handler kills the server with the error of serveConn.
ServeConnReturn_KillsServer(c) ==
    /\ hPc[c] = "closing"
    /\ req[c] # "inflight"
    /\ hPc' = [hPc EXCEPT ![c] = "exiting"]
    /\ req' = [req EXCEPT ![c] = "none"]
    /\ envUUID' = [envUUID EXCEPT ![c] = ""]
    /\ tomb' = TombKill(tomb, ErrServe)
    /\ errRoute' = [errRoute EXCEPT
                      !["serveConn"] = [seen |-> TRUE, to |-> HandlerErrRoute]]
    /\ UNCHANGED <<wg, lisClosed, runPc, closerPc, pingerPc, pingerErr,
                   stopPc, stopResult, waitResult, connId, root, tag,
                   globalCounter, srvEnvironUUID, arrivedDying, loginVars,
                   newSrv, txnVars, storeVars>>

\* conn.Close() returns once the outstanding request has been answered.
ConnCloseReturns(c) == req[c] # "inflight"

\* return conn.Close(); the error, if any, is logged by the Handler.  The
\* rpc conn and its last reply are gone with the connection.
ServeConnReturn(c) ==
    /\ hPc[c] = "closing"
    /\ ConnCloseReturns(c)
    /\ hPc' = [hPc EXCEPT ![c] = "exiting"]
    /\ req' = [req EXCEPT ![c] = "none"]
    /\ envUUID' = [envUUID EXCEPT ![c] = ""]
    /\ errRoute' = [errRoute EXCEPT
                      !["serveConn"] = [seen |-> TRUE, to |-> HandlerErrRoute]]
    /\ UNCHANGED <<serverVars, connId, root, tag, globalCounter,
                   srvEnvironUUID, arrivedDying, loginVars, newSrv, txnVars,
                   storeVars>>

\* The Handler's deferred srv.wg.Done(), then reqNotifier.leave().
HandlerDone(c) ==
    /\ hPc[c] \in {"refused", "exiting"}
    /\ wg' = WgDone(wg)
    /\ hPc' = [hPc EXCEPT ![c] = "left"]
    /\ UNCHANGED <<tomb, lisClosed, runPc, closerPc, pingerPc, pingerErr,
                   stopPc, stopResult, waitResult, envUUID, connId, root, req,
                   tag, globalCounter, srvEnvironUUID, arrivedDying,
                   loginVars, newSrv, txnVars, storeVars, errRoute>>

\* ------------------------------------------------------------ the principal
\* Mutant: login does not store the tag.
NotifierLogin_Noop(t, p) == t

\* requestNotifier.login(tag): n.tag_ = tag, under the notifier's mutex.
NotifierLogin(t, p) == p

\* A Login request on the served connection, answered at once.  On the state
\* server root a connection that has not logged in is authenticated (the
\* facade then calls reqNotifier.login with the entity's tag) or refused for
\* its credentials; one that has logged in is rejected.  On an errRoot the
\* request answers the root's error, as every request does.
LoginRequest(c, p) ==
    /\ hPc[c] = "serving"
    /\ req[c] # "inflight"
    /\ \/ /\ root[c] = StateServerRoot
          /\ tag[c] = UnknownTag
          /\ \/ /\ tag' = [tag EXCEPT ![c] = NotifierLogin(tag[c], p)]
                /\ req' = [req EXCEPT ![c] = LoginOk]
             \/ /\ tag' = tag
                /\ req' = [req EXCEPT ![c] = LoginUnauthorized]
       \/ /\ root[c] = StateServerRoot
          /\ tag[c] # UnknownTag
          /\ tag' = tag
          /\ req' = [req EXCEPT ![c] = LoginAlready]
       \/ /\ root[c] # StateServerRoot
          /\ tag' = tag
          /\ req' = [req EXCEPT ![c] = RootReply(root[c])]
    /\ UNCHANGED <<serverVars, hPc, envUUID, connId, root, globalCounter,
                   srvEnvironUUID, arrivedDying, loginVars, newSrv, txnVars,
                   storeVars, errRoute>>

\* ------------------------------------------------------------------- Spec
\* The server's lifecycle: clients connect on the old paths ("/"), which
\* carry no :envuuid, while the server is started, serves, is stopped or
\* killed, loses mongo, drains and dies.
Next ==
    \/ StopCall
    \/ StopReturn
    \/ KillCall
    \/ WaitReturn
    \/ RunStartCloser
    \/ RunStartPinger
    \/ RunServeReturn
    \/ RunWait
    \/ RunDone
    \/ CloserClose
    \/ CloserDone
    \/ PingerTimer
    \/ PingerDying
    \/ PingOk
    \/ PingFail
    \/ PingerDone
    \/ \E c \in Conns : HttpAccept(c, "")
    \/ \E c \in Conns : NewRequestNotifier(c)
    \/ \E c \in Conns : HandshakeFail(c)
    \/ \E c \in Conns : HandlerAdd(c)
    \/ \E c \in Conns : HandlerCheck(c)
    \/ \E c \in Conns : ServeConnValidate(c)
    \/ \E c \in Conns : RequestDispatch(c)
    \/ \E c \in Conns : RequestComplete(c)
    \/ \E c \in Conns : SelectConnDead(c)
    \/ \E c \in Conns : SelectDying(c)
    \/ \E c \in Conns : ServeConnReturn(c)
    \/ \E c \in Conns : HandlerDone(c)

Spec == Init /\ [][Next]_vars

\* --------------------------------------------------------------- SpecLive
\* The steps of run and of its two goroutines that wait for nothing but
\* the scheduler once they are enabled.
RunStep ==
    \/ RunStartCloser
    \/ RunStartPinger
    \/ RunServeReturn
    \/ RunWait
    \/ RunDone
CloserStep == CloserClose \/ CloserDone
\* session.Ping() returns, with or without an error.
PingReturns == PingOk \/ PingFail
\* The steps of the handler of a connection that wait for nothing but the
\* scheduler; the websocket handshake ends, a dispatched request is
\* answered, conn.Close() returns.
HandlerStep(c) ==
    \/ NewRequestNotifier(c)
    \/ HandshakeFail(c) \/ HandlerAdd(c)
    \/ HandlerCheck(c)
    \/ ServeConnValidate(c)
    \/ RequestComplete(c)
    \/ ServeConnReturn(c)
    \/ HandlerDone(c)

\* The scheduler runs every goroutine that can take a step; a select with
\* a closed Dying channel among its ready cases takes that case sooner or
\* later (the select of mongoPinger is entered again after every ping that
\* succeeds, hence the strong fairness).
Fairness ==
    /\ WF_vars(RunStep)
    /\ WF_vars(CloserStep)
    /\ WF_vars(PingReturns)
    /\ WF_vars(PingerDone)
    /\ SF_vars(PingerDying)
    /\ \A c \in Conns : WF_vars(HandlerStep(c))
    /\ \A c \in Conns : WF_vars(SelectDying(c))

\* The server's lifecycle, as in Spec, under fair scheduling.
SpecLive == Init /\ [][Next]_vars /\ Fairness

\* -------------------------------------------------------------- SpecScope
\* The tenant scope: clients connect on "/environment/:envuuid/api" with
\* any scope and on the old paths with none, to a server that stays alive.
NextScope ==
    \/ RunStartCloser
    \/ RunStartPinger
    \/ \E c \in Conns, uuid \in RequestUUIDs : HttpAccept(c, uuid)
    \/ \E c \in Conns : NewRequestNotifier(c)
    \/ \E c \in Conns : HandshakeFail(c)
    \/ \E c \in Conns : HandlerAdd(c)
    \/ \E c \in Conns : HandlerCheck(c)
    \/ \E c \in Conns : ServeConnValidate(c)
    \/ \E c \in Conns : ServeConnStore(c)
    \/ \E c \in Conns : RequestDispatch(c)
    \/ \E c \in Conns : RequestComplete(c)
    \/ \E c \in Conns : SelectConnDead(c)
    \/ \E c \in Conns : ServeConnReturn(c)
    \/ \E c \in Conns : HandlerDone(c)

SpecScope == Init /\ [][NextScope]_vars

\* --------------------------------------------------------------- SpecAuth
\* Authentication: clients connect on the old paths ("/"), which carry no
\* :envuuid, log in and send requests, to a server that stays alive.
NextAuth ==
    \/ RunStartCloser
    \/ RunStartPinger
    \/ \E c \in Conns : HttpAccept(c, "")
    \/ \E c \in Conns : NewRequestNotifier(c)
    \/ \E c \in Conns : HandlerAdd(c)
    \/ \E c \in Conns : HandlerCheck(c)
    \/ \E c \in Conns : ServeConnValidate(c)
    \/ \E c \in Conns, p \in Principals : LoginRequest(c, p)
    \/ \E c \in Conns : RequestDispatch(c)
    \/ \E c \in Conns : RequestComplete(c)
    \/ \E c \in Conns : SelectConnDead(c)
    \/ \E c \in Conns : ServeConnReturn(c)
    \/ \E c \in Conns : HandlerDone(c)

SpecAuth == Init /\ [][NextAuth]_vars

\* ---------------------------------------------------------------- SpecNew
\* NewServer from its call on, for every input, and then the life of the
\* Server it returned, as in Spec.
NextNew ==
    \/ NewListen
    \/ NewKeyPair
    \/ NewGo
    \/ Next

SpecNew == InitNew /\ [][NextNew]_vars

\* ------------------------------------------------------------------ login
\* Mutant: the limiter is made one slot too large.
LimiterCapacity_OffByOne == loginRateLimit + 1

\* utils.NewLimiter(loginRateLimit): the capacity of srv.limiter.
LimiterCapacity == loginRateLimit

\* Mutant: every connection's root gets a limiter of its own.
ConnLimiter_PerConn(c) == c

\* serveConn hands srv.limiter to the state server root of every connection.
ConnLimiter(c) == SrvLimiter

\* A Login request arrives on the connection and asks for a slot.
LoginArrive(c) ==
    /\ loginPc[c] = "idle"
    /\ loginPc' = [loginPc EXCEPT ![c] = "waiting"]
    /\ UNCHANGED <<serverVars, connVars, limiter, newSrv, txnVars, storeVars,
                   errRoute>>

\* The limiter has a free slot: the Login takes it and is serviced.
LoginAcquire(c) ==
    /\ loginPc[c] = "waiting"
    /\ limiter[ConnLimiter(c)] < LimiterCapacity
    /\ limiter' = [limiter EXCEPT ![ConnLimiter(c)] = @ + 1]
    /\ loginPc' = [loginPc EXCEPT ![c] = "servicing"]
    /\ UNCHANGED <<serverVars, connVars, newSrv, txnVars, storeVars, errRoute>>

\* The Login has been serviced (it succeeded or failed): the slot is freed.
LoginFinish(c) ==
    /\ loginPc[c] = "servicing"
    /\ limiter' = [limiter EXCEPT ![ConnLimiter(c)] = @ - 1]
    /\ loginPc' = [loginPc EXCEPT ![c] = "idle"]
    /\ UNCHANGED <<serverVars, connVars, newSrv, txnVars, storeVars, errRoute>>

\* Login admission on a serving server: every connection of LoginConns is
\* being served on the state server root and sends Login requests.
NextLogin ==
    \/ \E c \in LoginConns : LoginArrive(c)
    \/ \E c \in LoginConns : LoginAcquire(c)
    \/ \E c \in LoginConns : LoginFinish(c)

SpecLogin == Init /\ [][NextLogin]_vars

\* ------------------------------------------------------- Unit.SetMeterStatus
\* Mutant: every code that has a constant is accepted.
ValidCode_AnyConstant(code) ==
    code \in {MeterNotSet, MeterNotAvailable, MeterGreen, MeterAmber,
              MeterRed}

\* switch code { case MeterGreen, MeterAmber, MeterRed: default: error }
ValidCode(code) == code \in {MeterGreen, MeterAmber, MeterRed}

\* Mutant: only the code is compared.
Satisfied_CodeOnly(doc, t) == doc.code = t[1]

\* meterDoc.Code == code && meterDoc.Info == info
Satisfied(doc, t) == doc.code = t[1] /\ doc.info = t[2]

\* Mutant: the meter status operation asserts txn.DocMissing, as the
\* operation that creates the document does.
OpAssertsHold_DocMissing(life, doc) == life = "alive" /\ doc = Missing

\* Mutant: the operations do not assert that the unit is alive.
OpAssertsHold_NoAlive(life, doc) == doc # Missing

\* Mutant: the operation also asserts that the status has not been set
\* since the document was created, so that a second writer is refused.
OpAssertsHold_Unset(life, doc) ==
    life = "alive" /\ doc = [code |-> MeterNotSet, info |-> ""]

\* The assertions of setMeterStatusOp: the unit's document isAliveDoc, the
\* meter status document txn.DocExists.
OpAssertsHold(life, doc) == life = "alive" /\ doc # Missing

\* Mutant: the update sets the code and leaves the info.
ApplySet_CodeOnly(doc, t) == [doc EXCEPT !.code = t[1]]

\* Update: $set code and info, on the one document.
ApplySet(doc, t) == [doc EXCEPT !.code = t[1], !.info = t[2]]

\* Mutant: the engine retries without a bound.
TxnRetryAllowed_Unbounded(attempt) == TRUE

\* The engine invokes the builder for attempts 0 .. MaxAttempts - 1.
TxnRetryAllowed(attempt) == attempt < MaxAttempts

\* SetMeterStatus(codeRaw, info) is called: the code is validated.
SetMeterStatusCall(w, t) ==
    /\ wPc[w] = "idle"
    /\ wTarget' = [wTarget EXCEPT ![w] = t]
    /\ IF ValidCode(t[1])
       THEN /\ wPc' = [wPc EXCEPT ![w] = "read"]
            /\ wResult' = wResult
       ELSE /\ wPc' = [wPc EXCEPT ![w] = "done"]
            /\ wResult' = [wResult EXCEPT ![w] = ErrInvalidCode]
    /\ UNCHANGED <<serverVars, connVars, loginVars, newSrv, storeVars,
                   errRoute, unitLife, meterDoc, wAttempt, wWrote>>

\* meterDoc, err := u.getMeterStatusDoc(); return nil if it already holds
\* the code and the info; otherwise buildTxn(0) builds the operations from
\* what the call has in memory.
SetMeterStatusRead(w) ==
    /\ wPc[w] = "read"
    /\ IF meterDoc = Missing
       THEN /\ wPc' = [wPc EXCEPT ![w] = "done"]
            /\ wResult' = [wResult EXCEPT ![w] = ErrDocNotFound]
       ELSE IF Satisfied(meterDoc, wTarget[w])
       THEN /\ wPc' = [wPc EXCEPT ![w] = "done"]
            /\ wResult' = [wResult EXCEPT ![w] = NoError]
       ELSE /\ wPc' = [wPc EXCEPT ![w] = "commit"]
            /\ wResult' = wResult
    /\ UNCHANGED <<serverVars, connVars, loginVars, newSrv, storeVars,
                   errRoute, unitLife, meterDoc, wTarget, wAttempt, wWrote>>

\* u.st.run: the operations of setMeterStatusOp are submitted as one
\* transaction.  It is applied if their assertions hold; otherwise it is
\* aborted and the engine goes on to the next attempt, or gives up.
TxnCommit(w) ==
    /\ wPc[w] = "commit"
    /\ IF OpAssertsHold(unitLife, meterDoc)
       THEN /\ meterDoc' = ApplySet(meterDoc, wTarget[w])
            /\ wWrote' = [wWrote EXCEPT ![w] = TRUE]
            /\ wPc' = [wPc EXCEPT ![w] = "done"]
            /\ wResult' = [wResult EXCEPT ![w] = NoError]
            /\ wAttempt' = wAttempt
       ELSE /\ wAttempt' = [wAttempt EXCEPT ![w] = @ + 1]
            /\ IF TxnRetryAllowed(wAttempt[w] + 1)
               THEN /\ wPc' = [wPc EXCEPT ![w] = "refresh"]
                    /\ wResult' = wResult
               ELSE /\ wPc' = [wPc EXCEPT ![w] = "done"]
                    /\ wResult' = [wResult EXCEPT
                                      ![w] = ErrExcessiveContention]
            /\ UNCHANGED <<meterDoc, wWrote>>
    /\ UNCHANGED <<serverVars, connVars, loginVars, newSrv, storeVars,
                   errRoute, unitLife, wTarget>>

\* Mutant: the error of u.Refresh() is taken for a conflict and the
\* operations are submitted again.
BuildRefresh_Retry(w) ==
    /\ wPc[w] = "refresh"
    /\ wPc' = [wPc EXCEPT ![w] = IF unitLife = "removed"
                                 THEN "commit" ELSE "reread"]
    /\ UNCHANGED <<serverVars, connVars, loginVars, newSrv, storeVars,
                   errRoute, unitLife, meterDoc, wTarget, wAttempt, wResult,
                   wWrote>>

\* buildTxn(attempt > 0): err := u.Refresh(), which fails once the unit's
\* document has been removed.
BuildRefresh(w) ==
    /\ wPc[w] = "refresh"
    /\ IF unitLife = "removed"
       THEN /\ wPc' = [wPc EXCEPT ![w] = "done"]
            /\ wResult' = [wResult EXCEPT ![w] = ErrUnitNotFound]
       ELSE /\ wPc' = [wPc EXCEPT ![w] = "reread"]
            /\ wResult' = wResult
    /\ UNCHANGED <<serverVars, connVars, loginVars, newSrv, storeVars,
                   errRoute, unitLife, meterDoc, wTarget, wAttempt, wWrote>>

\* buildTxn(attempt > 0): meterDoc, err = u.getMeterStatusDoc(); if it
\* holds the code and the info, return jujutxn.ErrNoOperations, which the
\* engine reports as success; otherwise the operations are built again.
BuildReread(w) ==
    /\ wPc[w] = "reread"
    /\ IF meterDoc = Missing
       THEN /\ wPc' = [wPc EXCEPT ![w] = "done"]
            /\ wResult' = [wResult EXCEPT ![w] = ErrDocNotFound]
       ELSE IF Satisfied(meterDoc, wTarget[w])
       THEN /\ wPc' = [wPc EXCEPT ![w] = "done"]
            /\ wResult' = [wResult EXCEPT ![w] = NoError]
       ELSE /\ wPc' = [wPc EXCEPT ![w] = "commit"]
            /\ wResult' = wResult
    /\ UNCHANGED <<serverVars, connVars, loginVars, newSrv, storeVars,
                   errRoute, unitLife, meterDoc, wTarget, wAttempt, wWrote>>

\* The unit is destroyed: its life goes from alive to dying.
UnitDestroy ==
    /\ unitLife = "alive"
    /\ unitLife' = "dying"
    /\ UNCHANGED <<serverVars, connVars, loginVars, newSrv, storeVars,
                   errRoute, meterDoc, wPc, wTarget, wAttempt, wResult,
                   wWrote>>

\* The unit is made dead.
UnitEnsureDead ==
    /\ unitLife \in {"alive", "dying"}
    /\ unitLife' = "dead"
    /\ UNCHANGED <<serverVars, connVars, loginVars, newSrv, storeVars,
                   errRoute, meterDoc, wPc, wTarget, wAttempt, wResult,
                   wWrote>>

\* The dead unit is removed: one transaction removes its document and,
\* with removeMeterStatusOp, its meter status document.
UnitRemove ==
    /\ unitLife = "dead"
    /\ unitLife' = "removed"
    /\ meterDoc' = Missing
    /\ UNCHANGED <<serverVars, connVars, loginVars, newSrv, storeVars,
                   errRoute, wPc, wTarget, wAttempt, wResult, wWrote>>

\* ---------------------------------------------------------------- SpecTxn
\* Concurrent calls of SetMeterStatus on one unit, which may be destroyed,
\* made dead and removed meanwhile.
NextTxn ==
    \/ \E w \in Writers, t \in Targets : SetMeterStatusCall(w, t)
    \/ \E w \in Writers : SetMeterStatusRead(w)
    \/ \E w \in Writers : TxnCommit(w)
    \/ \E w \in Writers : BuildRefresh(w)
    \/ \E w \in Writers : BuildReread(w)
    \/ UnitDestroy
    \/ UnitEnsureDead
    \/ UnitRemove

SpecTxn == Init /\ [][NextTxn]_vars

\* ------------------------------------------- State.SetMeterStatusOnAllUnits
\* What the other variables keep while the call and the units move.
bulkFrame == <<serverVars, connVars, loginVars, newSrv, txnVars, netVars,
               metricVars, storageVars, charmVars,
               errRoute>>

\* The units AllServices and AllUnits return: those whose document is in
\* the units collection.
AllUnits == {u \in Units : unitsC[u] # "removed"}

\* Mutant: the operations of each unit are run as a transaction of their
\* own.
TxnOf_PerUnit(u, units) == {u}

\* ops = append(ops, setMeterStatusOp(unit, ...)...) for every unit, then
\* one st.runTransaction(ops): the units whose operations are in the
\* transaction that holds the operations of u.
TxnOf(u, units) == units

\* Mutant: an empty list of operations is sent to the store as any other.
EmptyOpsShortCircuit_Sent(units) == FALSE

\* The engine returns at once, without a transaction, when it is given no
\* operations.
EmptyOpsShortCircuit(units) == units = {}

\* SetMeterStatusOnAllUnits(codeRaw, info) is called; the code is converted
\* with MeterStatusCode(codeRaw) and is not validated.
BulkCall(t) ==
    /\ bulkPc = "idle"
    /\ bulkPc' = "units"
    /\ bulkArg' = t
    /\ UNCHANGED <<bulkFrame, unitsC, meterStatusC, bulkUnits, bulkResult,
                   bulkTrips>>

\* services, err := st.AllServices(); units, err := svc.AllUnits(): the
\* error of either is returned; otherwise the operations of every unit
\* read are appended to ops.
BulkCollect ==
    /\ bulkPc = "units"
    /\ \E err \in {NoError, ErrStoreRead} :
          IF err # NoError
          THEN /\ bulkPc' = "done"
               /\ bulkResult' = err
               /\ bulkUnits' = bulkUnits
          ELSE /\ bulkPc' = "commit"
               /\ bulkUnits' = AllUnits
               /\ bulkResult' = bulkResult
    /\ UNCHANGED <<bulkFrame, unitsC, meterStatusC, bulkArg, bulkTrips>>

\* st.runTransaction(ops): the operations are submitted once, as one
\* transaction, which is applied to all their documents if all their
\* assertions hold and to none otherwise; the error is returned annotated.
BulkCommit ==
    /\ bulkPc = "commit"
    /\ bulkPc' = "done"
    /\ IF EmptyOpsShortCircuit(bulkUnits)
       THEN /\ bulkResult' = NoError
            /\ UNCHANGED <<meterStatusC, bulkTrips>>
       ELSE LET applied(u) ==
                    \A v \in TxnOf(u, bulkUnits) :
                        OpAssertsHold(unitsC[v], meterStatusC[v])
            IN /\ bulkTrips' = bulkTrips + 1
               /\ meterStatusC' =
                      [u \in Units |->
                          IF u \in bulkUnits /\ applied(u)
                          THEN ApplySet(meterStatusC[u], bulkArg)
                          ELSE meterStatusC[u]]
               /\ bulkResult' = IF \A u \in bulkUnits : applied(u)
                                THEN NoError ELSE ErrAborted
    /\ UNCHANGED <<bulkFrame, unitsC, bulkArg, bulkUnits>>

\* A unit is destroyed: its life goes from alive to dying.
DestroyUnit(u) ==
    /\ unitsC[u] = "alive"
    /\ unitsC' = [unitsC EXCEPT ![u] = "dying"]
    /\ UNCHANGED <<bulkFrame, meterStatusC, bulkPc, bulkArg, bulkUnits,
                   bulkResult, bulkTrips>>

\* A unit is made dead.
EnsureDeadUnit(u) ==
    /\ unitsC[u] \in {"alive", "dying"}
    /\ unitsC' = [unitsC EXCEPT ![u] = "dead"]
    /\ UNCHANGED <<bulkFrame, meterStatusC, bulkPc, bulkArg, bulkUnits,
                   bulkResult, bulkTrips>>

\* A dead unit is removed: one transaction removes its document and, with
\* removeMeterStatusOp, its meter status document.
RemoveUnit(u) ==
    /\ unitsC[u] = "dead"
    /\ unitsC' = [unitsC EXCEPT ![u] = "removed"]
    /\ meterStatusC' = [meterStatusC EXCEPT ![u] = Missing]
    /\ UNCHANGED <<bulkFrame, bulkPc, bulkArg, bulkUnits, bulkResult,
                   bulkTrips>>

\* --------------------------------------------------------------- SpecBulk
\* One call of SetMeterStatusOnAllUnits, while the units may be destroyed,
\* made dead and removed.
NextBulk ==
    \/ \E t \in Targets : BulkCall(t)
    \/ BulkCollect
    \/ BulkCommit
    \/ \E u \in Units : DestroyUnit(u)
    \/ \E u \in Units : EnsureDeadUnit(u)
    \/ \E u \in Units : RemoveUnit(u)

SpecBulk == Init /\ [][NextBulk]_vars

\* --------------------------------------------------- readRequestedNetworks
\* What the other variables keep while the requested networks move.
netFrame == <<serverVars, connVars, loginVars, newSrv, txnVars, bulkVars,
              metricVars, storageVars, charmVars,
              errRoute>>

\* err := st.requestedNetworks.FindId(id).One(&doc): the query fails, or
\* finds no document, or fills doc with the document.
FindIdOne(id, fails) ==
    IF fails THEN [err |-> ErrQuery, networks |-> <<>>]
    ELSE IF ~requestedNetworks[id].exists
    THEN [err |-> ErrNotFound, networks |-> <<>>]
    ELSE [err |-> NoError, networks |-> requestedNetworks[id].networks]

\* Mutant: mgo.ErrNotFound is returned like any other error.
ReadRequestedNetworksResult_Strict(found) ==
    [networks |-> found.networks, err |-> found.err]

\* if err == mgo.ErrNotFound { return nil, nil }; return doc.Networks, err
ReadRequestedNetworksResult(found) ==
    IF found.err = ErrNotFound
    THEN [networks |-> <<>>, err |-> NoError]
    ELSE [networks |-> found.networks, err |-> found.err]

\* What readRequestedNetworks writes to the log on the way: nothing.
ReadRequestedNetworksLogs(found) == {}

\* readRequestedNetworks(st, id)
ReadRequestedNetworks(id) ==
    /\ \E fails \in BOOLEAN :
          LET found == FindIdOne(id, fails)
              res == ReadRequestedNetworksResult(found)
          IN /\ netRead' = [id |-> id, found |-> found.err,
                            networks |-> res.networks, err |-> res.err]
             /\ netLog' = netLog \cup
                              {id : x \in ReadRequestedNetworksLogs(found)}
    /\ UNCHANGED <<netFrame, requestedNetworks, netTxn>>

\* Mutant: the operation inserts without an assertion, over a document
\* that is there.
CreateAssertHolds_None(doc) == TRUE

\* createRequestedNetworksOp: Assert: txn.DocMissing
CreateAssertHolds(doc) == ~doc.exists

\* The error of a transaction whose assertion failed.
ErrTxnAborted == "transaction aborted"

\* A transaction with createRequestedNetworksOp: the document is inserted
\* if the assertion holds; otherwise the transaction is aborted.
CreateRequestedNetworks(id, networks) ==
    /\ IF CreateAssertHolds(requestedNetworks[id])
       THEN /\ requestedNetworks' =
                  [requestedNetworks EXCEPT
                      ![id] = [exists |-> TRUE, networks |-> networks]]
            /\ netTxn' = [op |-> "create", id |-> id, err |-> NoError]
       ELSE /\ requestedNetworks' = requestedNetworks
            /\ netTxn' = [op |-> "create", id |-> id, err |-> ErrTxnAborted]
    /\ UNCHANGED <<netFrame, netRead, netLog>>

\* A transaction with removeRequestedNetworksOp, which asserts nothing:
\* the document is removed, if it is there.
RemoveRequestedNetworks(id) ==
    /\ requestedNetworks' = [requestedNetworks EXCEPT ![id] = NoNetworksDoc]
    /\ netTxn' = [op |-> "remove", id |-> id, err |-> NoError]
    /\ UNCHANGED <<netFrame, netRead, netLog>>

\* ---------------------------------------------------------------- SpecNet
\* Reads of the requested networks of a service and of a machine of a
\* legacy database, whose documents may be created and removed.
NextNet ==
    \/ \E id \in NetIds : ReadRequestedNetworks(id)
    \/ \E id \in NetIds, n \in NetworkLists : CreateRequestedNetworks(id, n)
    \/ \E id \in NetIds : RemoveRequestedNetworks(id)

SpecNet == Init /\ [][NextNet]_vars

\* ---------------------------------------------------------- metric batches
\* What the other variables keep while the metrics move.
metricFrame == <<serverVars, connVars, loginVars, newSrv, txnVars, bulkVars,
                 netVars, storageVars, charmVars,
                 errRoute>>

\* The uuids of the stored batches, of the unsent and of the sent ones.
Stored == {b \in BatchIds : metricsC[b].stored}
Unsent == {b \in Stored : ~metricsC[b].sent}
Sent == {b \in Stored : metricsC[b].sent}
CountofUnsentMetrics == Cardinality(Unsent)
CountofSentMetrics == Cardinality(Sent)

\* A batch as read back from its document, or not found.
ReadBatch(doc) ==
    IF doc.stored
    THEN [err |-> NoError, unit |-> doc.unit, charmUrl |-> doc.charmUrl,
          created |-> doc.created, sent |-> doc.sent,
          metrics |-> doc.metrics]
    ELSE [err |-> ErrBatchNotFound, unit |-> "", charmUrl |-> "",
          created |-> "", sent |-> FALSE, metrics |-> <<>>]

\* st.MetricBatch(uuid)
MetricBatch(b) == ReadBatch(metricsC[b])

\* Mutant: the batch is inserted without an assertion on the unit.
AddMetricsAssertHolds_None(life) == TRUE

\* The assertion of the transaction that inserts a batch: the unit is
\* alive.
AddMetricsAssertHolds(life) == life = "alive"

\* The uuid of a new batch: one no batch has.
NewUUID == CHOOSE b \in BatchIds \ Stored : \A c \in BatchIds \ Stored : b <= c

\* unit.AddMetrics(created, metrics): one transaction inserts the batch,
\* unsent, under a new uuid; on a unit that is not alive it is refused and
\* the unit is reported as not found.
AddMetrics(created, metrics) ==
    /\ Stored # BatchIds
    /\ IF AddMetricsAssertHolds(unitLife)
       THEN /\ metricsC' =
                  [metricsC EXCEPT
                      ![NewUUID] = [stored |-> TRUE, unit |-> UnitName,
                                    charmUrl |-> UnitCharmURL,
                                    created |-> created, sent |-> FALSE,
                                    metrics |-> metrics]]
            /\ addResult' = [uuid |-> NewUUID, err |-> NoError,
                             created |-> created, metrics |-> metrics]
            /\ addedCount' = addedCount + 1
       ELSE /\ addResult' = [uuid |-> 0, err |-> ErrMetricUnitNotFound,
                             created |-> created, metrics |-> metrics]
            /\ UNCHANGED <<metricsC, addedCount>>
    /\ UNCHANGED <<metricFrame, snd>>

\* Mutant: SetSent flips the flag.
SetSentFlag_Toggle(doc) == [doc EXCEPT !.sent = ~doc.sent]

\* $set sent: true on the document of a batch.
SetSentFlag(doc) == [doc EXCEPT !.sent = TRUE]

\* batch.SetSent()
SetSent(b) ==
    /\ b \in Stored
    /\ metricsC' = [metricsC EXCEPT ![b] = SetSentFlag(metricsC[b])]
    /\ UNCHANGED <<metricFrame, addResult, addedCount, snd>>

\* st.SetMetricBatchesSent(batches): every batch given is set sent.
MarkSent(batches) ==
    [b \in BatchIds |->
        IF b \in batches THEN SetSentFlag(metricsC[b]) ELSE metricsC[b]]

SetMetricBatchesSent(batches) ==
    /\ batches # {}
    /\ batches \subseteq Stored
    /\ metricsC' = MarkSent(batches)
    /\ UNCHANGED <<metricFrame, addResult, addedCount, snd>>

\* Mutant: MetricsToSend selects among all the stored batches.
ToSendCandidates_All == Stored

\* The batches MetricsToSend selects among: the unsent ones.
ToSendCandidates == Unsent

\* The smaller of two numbers, and the quotient rounded up.
Min(a, b) == IF a <= b THEN a ELSE b
CeilDiv(a, b) == (a + b - 1) \div b

\* st.MetricsToSend(n): up to n of the batches to send.
MetricsToSend(n) ==
    {S \in SUBSET ToSendCandidates :
        Cardinality(S) = Min(n, Cardinality(ToSendCandidates))}

\* The sender begins: it will call MetricsToSend(n) and then
\* SetMetricBatchesSent on what it got, until it gets nothing.
SendStart(n) ==
    /\ snd.pc = "idle"
    /\ snd' = [pc |-> "fetch", n |-> n, orig |-> Unsent, all |-> Stored,
               rounds |-> 0, got |-> {}]
    /\ UNCHANGED <<metricFrame, metricsC, addResult, addedCount>>

\* toSend, err := st.MetricsToSend(n)
SendFetch ==
    /\ snd.pc = "fetch"
    /\ \E S \in MetricsToSend(snd.n) :
          snd' = [snd EXCEPT !.got = S,
                             !.pc = IF S = {} THEN "done" ELSE "mark"]
    /\ UNCHANGED <<metricFrame, metricsC, addResult, addedCount>>

\* err = st.SetMetricBatchesSent(toSend)
SendMark ==
    /\ snd.pc = "mark"
    /\ metricsC' = MarkSent(snd.got)
    /\ snd' = [snd EXCEPT !.pc = "fetch", !.rounds = @ + 1]
    /\ UNCHANGED <<metricFrame, addResult, addedCount>>

\* ------------------------------------------------------------ SpecMetrics
\* Batches are added for the unit, which may be destroyed, made dead and
\* removed, and are set sent one by one or several at once.
NextMetrics ==
    \/ \E t \in Times, ms \in MetricLists : AddMetrics(t, ms)
    \/ \E b \in BatchIds : SetSent(b)
    \/ \E bs \in SUBSET BatchIds : SetMetricBatchesSent(bs)
    \/ UnitDestroy
    \/ UnitEnsureDead
    \/ UnitRemove

SpecMetrics == Init /\ [][NextMetrics]_vars

\* --------------------------------------------------------------- SpecSend
\* Batches are added for the alive unit while a sender sends them n at a
\* time.
NextSend ==
    \/ \E t \in {"12:00:00"}, ms \in MetricLists : AddMetrics(t, ms)
    \/ \E n \in SendSizes : SendStart(n)
    \/ SendFetch
    \/ SendMark

SpecSend == Init /\ [][NextSend]_vars

\* ------------------------------------------------------------ local storage
\* What the other variables keep while the storage moves.
storageFrame == <<serverVars, connVars, loginVars, newSrv, txnVars, bulkVars,
                  netVars, metricVars, charmVars,
                  errRoute>>

\* Mutant: a client keeps the files it puts to itself.
StoreOf_PerClient(cl) == cl

\* localstorage.Client(addr): every client of the address reads and writes
\* the files of the one server.
StoreOf(cl) == ServerStore

\* The order of the characters, and of the names: that of their bytes.
CharRank(ch) ==
    CASE ch = "/" -> 47 [] ch = "a" -> 97 [] ch = "b" -> 98 [] ch = "z" -> 122

RECURSIVE LexLess(_, _)
LexLess(s, t) ==
    IF t = <<>> THEN FALSE
    ELSE IF s = <<>> THEN TRUE
    ELSE IF Head(s) = Head(t) THEN LexLess(Tail(s), Tail(t))
    ELSE CharRank(Head(s)) < CharRank(Head(t))

\* strings.HasPrefix(name, prefix)
HasPrefix(name, prefix) ==
    /\ Len(prefix) <= Len(name)
    /\ SubSeq(name, 1, Len(prefix)) = prefix

\* The names of a set in sorted order.
RECURSIVE SortNames(_)
SortNames(S) ==
    IF S = {} THEN <<>>
    ELSE LET first == CHOOSE x \in S : \A y \in S \ {x} : LexLess(x, y)
         IN <<first>> \o SortNames(S \ {first})

\* Mutant: List returns every name, whatever the prefix.
ListNames_NoPrefix(store, prefix) ==
    SortNames({n \in Names : files[store][n].exists})

\* What List(prefix) returns of a store: its names that start with the
\* prefix, sorted.
ListNames(store, prefix) ==
    SortNames({n \in Names :
                  files[store][n].exists /\ HasPrefix(n, prefix)})

\* storage.Put(name, reader, length)
Put(cl, name, data) ==
    /\ files' = [files EXCEPT ![StoreOf(cl)][name] =
                      [exists |-> TRUE, data |-> data, by |-> cl]]
    /\ shadow' = [shadow EXCEPT ![name] =
                      [exists |-> TRUE, data |-> data, by |-> cl]]
    /\ lastOp' = [client |-> cl, op |-> "Put", name |-> name,
                  data |-> data, names |-> <<>>, err |-> NoError]
    /\ UNCHANGED storageFrame

\* storage.Get(name): the contents, or a not found error.
Get(cl, name) ==
    /\ LET f == files[StoreOf(cl)][name]
       IN lastOp' = [client |-> cl, op |-> "Get", name |-> name,
                     data |-> IF f.exists THEN f.data ELSE "",
                     names |-> <<>>,
                     err |-> IF f.exists THEN NoError ELSE ErrFileNotFound]
    /\ UNCHANGED <<storageFrame, files, shadow>>

\* storage.Remove(name): it is ok to remove a file that is not there.
Remove(cl, name) ==
    /\ files' = [files EXCEPT ![StoreOf(cl)][name] = NoFile]
    /\ shadow' = [shadow EXCEPT ![name] = NoFile]
    /\ lastOp' = [client |-> cl, op |-> "Remove", name |-> name,
                  data |-> "", names |-> <<>>, err |-> NoError]
    /\ UNCHANGED storageFrame

\* storage.RemoveAll()
RemoveAll(cl) ==
    /\ files' = [files EXCEPT ![StoreOf(cl)] = [n \in Names |-> NoFile]]
    /\ shadow' = [n \in Names |-> NoFile]
    /\ lastOp' = [client |-> cl, op |-> "RemoveAll", name |-> <<>>,
                  data |-> "", names |-> <<>>, err |-> NoError]
    /\ UNCHANGED storageFrame

\* storage.List(prefix)
List(cl, prefix) ==
    /\ lastOp' = [client |-> cl, op |-> "List", name |-> prefix,
                  data |-> "", names |-> ListNames(StoreOf(cl), prefix),
                  err |-> NoError]
    /\ UNCHANGED <<storageFrame, files, shadow>>

\* ------------------------------------------------------------ SpecStorage
\* The clients of one local storage server put, get, remove and list files.
NextStorage ==
    \/ \E cl \in Clients, n \in Names, d \in Contents : Put(cl, n, d)
    \/ \E cl \in Clients, n \in Names : Get(cl, n)
    \/ \E cl \in Clients, n \in Names : Remove(cl, n)
    \/ \E cl \in Clients : RemoveAll(cl)
    \/ \E cl \in Clients, p \in Prefixes : List(cl, p)

SpecStorage == Init /\ [][NextStorage]_vars

\* ------------------------------------------------------------ AddCharmViaAPI
charmFrame == <<serverVars, connVars, loginVars, newSrv, txnVars, bulkVars,
                netVars, metricVars, storageVars, errRoute>>

\* errors.Mask(err): an error with the message of err that hides its cause,
\* and with it the code.
Mask(err) == [msg |-> err.msg, code |-> ""]

\* Mutant: every error of AddCharm is taken for an unauthorized one.
IsCodeUnauthorized_Any(err) == TRUE

\* params.IsCodeUnauthorized(err)
IsCodeUnauthorized(err) == err.code = CodeUnauthorized

\* The caller c has made the call named call, which returned err.
Called(c, call, err) ==
    Append(charm[c].calls, [call |-> call, err |-> err])

\* return nil, err
CharmFail(c, call, callErr, err) ==
    charm' = [charm EXCEPT ![c].pc = "done",
                           ![c].calls = Called(c, call, callErr),
                           ![c].err = err]

\* ctx.Infof("Added charm ..."); return curl, nil
CharmAdded(c, call, curl) ==
    charm' = [charm EXCEPT ![c].pc = "done",
                           ![c].calls = Called(c, call, NilErr),
                           ![c].result = curl,
                           ![c].info = TRUE]

\* AddCharmViaAPI(client, ctx, curl, repo, csclient): switch curl.Schema
AddCharmViaAPI(c, curl) ==
    /\ charm[c].pc = "idle"
    /\ charm' = [charm EXCEPT ![c] =
          CASE curl.schema = "local" -> [NoCall EXCEPT !.pc = "repo.Get",
                                                      !.curl = curl]
            [] curl.schema = "cs" -> [NoCall EXCEPT !.pc = "AddCharm",
                                                   !.curl = curl]
            [] OTHER -> [NoCall EXCEPT !.pc = "done", !.curl = curl,
                                       !.err = ErrUnsupportedSchema]]
    /\ UNCHANGED charmFrame

\* case "local": ch, err := repo.Get(curl)
RepoGet(c, err) ==
    /\ charm[c].pc = "repo.Get"
    /\ IF err # NilErr
       THEN CharmFail(c, "repo.Get", err, err)
       ELSE charm' = [charm EXCEPT ![c].pc = "AddLocalCharm",
                                   ![c].calls = Called(c, "repo.Get", err)]
    /\ UNCHANGED charmFrame

\* stateCurl, err := client.AddLocalCharm(curl, ch); curl = stateCurl
AddLocalCharm(c, err, rev) ==
    /\ charm[c].pc = "AddLocalCharm"
    /\ IF err # NilErr
       THEN CharmFail(c, "AddLocalCharm", err, err)
       ELSE CharmAdded(c, "AddLocalCharm",
                       [charm[c].curl EXCEPT !.rev = rev])
    /\ UNCHANGED charmFrame

\* case "cs": client.AddCharm(curl)
AddCharm(c, err) ==
    /\ charm[c].pc = "AddCharm"
    /\ IF err = NilErr
       THEN CharmAdded(c, "AddCharm", charm[c].curl)
       ELSE IF ~IsCodeUnauthorized(err)
       THEN CharmFail(c, "AddCharm", err, Mask(err))
       ELSE charm' = [charm EXCEPT ![c].pc = "authorize",
                                   ![c].calls = Called(c, "AddCharm", err)]
    /\ UNCHANGED charmFrame

\* m, err := csclient.authorize(curl)
Authorize(c, err) ==
    /\ charm[c].pc = "authorize"
    /\ IF err # NilErr
       THEN CharmFail(c, "authorize", err, Mask(err))
       ELSE charm' = [charm EXCEPT
                        ![c].pc = "AddCharmWithAuthorization",
                        ![c].calls = Called(c, "authorize", err)]
    /\ UNCHANGED charmFrame

\* client.AddCharmWithAuthorization(curl, m)
AddCharmWithAuthorization(c, err) ==
    /\ charm[c].pc = "AddCharmWithAuthorization"
    /\ IF err # NilErr
       THEN CharmFail(c, "AddCharmWithAuthorization", err, Mask(err))
       ELSE CharmAdded(c, "AddCharmWithAuthorization", charm[c].curl)
    /\ UNCHANGED charmFrame

\* The caller takes what AddCharmViaAPI returned and may call it again.
CharmCallerReturns(c) ==
    /\ charm[c].pc = "done"
    /\ charm' = [charm EXCEPT ![c] = NoCall]
    /\ UNCHANGED charmFrame

\* -------------------------------------------------------------- SpecCharm
\* Callers add charms; the repository, the API server and the charm store
\* answer each call with success or with one of their errors.
NextCharm ==
    \/ \E c \in Callers, curl \in CharmURLs : AddCharmViaAPI(c, curl)
    \/ \E c \in Callers, err \in {NilErr, ErrRepoGet} : RepoGet(c, err)
    \/ \E c \in Callers, err \in {NilErr, ErrUpload}, rev \in Revisions :
          AddLocalCharm(c, err, rev)
    \/ \E c \in Callers,
          err \in {NilErr, ErrUnauthorizedCharm, ErrCharmNotFound} :
          AddCharm(c, err)
    \/ \E c \in Callers, err \in {NilErr, ErrMacaroon} : Authorize(c, err)
    \/ \E c \in Callers,
          err \in {NilErr, ErrUnauthorizedCharm, ErrCharmNotFound} :
          AddCharmWithAuthorization(c, err)
    \/ \E c \in Callers : CharmCallerReturns(c)

SpecCharm == Init /\ [][NextCharm]_vars

\* ================================================================= claims
\* Positions of a handler inside serveConn, and positions of a handler
\* between its srv.wg.Add(1) and its srv.wg.Done().
InServeConn == {"validate", "writing", "serving", "closing"}
Registered == InServeConn \cup {"added", "refused", "exiting"}
AcceptLoopReturned == runPc \in {"wait", "waited", "done"}
Handlers(pcs) == {c \in Conns : hPc[c] \in pcs}

\* C1 as stated: the server is dead only after the accept loop has returned,
\* the health check has exited and every handler that registered with the
\* wait group has finished.
C1_DeadAfterEveryRegisteredHandler ==
    Dead => /\ AcceptLoopReturned
            /\ pingerPc = "done"
            /\ Handlers(Registered) = {}

\* C1 amended: the server is dead only after the accept loop has returned,
\* the listener closer and the health check have exited and every handler
\* that entered serveConn has called Done; the only handlers still between
\* Add and Done are those that registered after the drain, which are at the
\* check of the tomb or past it on the way out, and the counter counts them.
C1_DeadAfterDrain ==
    Dead => /\ AcceptLoopReturned
            /\ closerPc = "done"
            /\ pingerPc = "done"
            /\ Handlers(InServeConn \cup {"exiting"}) = {}
            /\ wg = Cardinality(Handlers({"added", "refused"}))

\* C1 witness: the server is dead, one handler has served and left, and
\* another registered too late to be waited for.
C1_Witness ==
    /\ Dead
    /\ \E c \in Conns : hPc[c] = "left" /\ root[c] = StateServerRoot
    /\ \E c \in Conns : hPc[c] = "added"

\* C2: no handler is inside serveConn once the server is dead or Stop() has
\* returned, and every handler between Add and Done is counted by the wait
\* group together with the two goroutines of run.
C2_NoServingAfterStop ==
    /\ (Dead \/ stopPc = "returned") => Handlers(InServeConn) = {}
    /\ wg = Cardinality(Handlers(Registered))
            + (IF closerPc \in {"waiting", "closed"} THEN 1 ELSE 0)
            + (IF pingerPc \in {"select", "ping", "killed"} THEN 1 ELSE 0)

\* C2 witness: Stop() has returned, a handler that found the server alive
\* has served and left, and a late handler has been refused.
C2_Witness ==
    /\ stopPc = "returned"
    /\ \E c \in Conns : hPc[c] = "left" /\ root[c] = StateServerRoot
    /\ \E c \in Conns : hPc[c] = "refused"

\* C3: a connection accepted after the server began dying is never inside
\* serveConn, gets no root and has no request dispatched.
C3_NoAdmissionAfterDying ==
    \A c \in Conns :
        arrivedDying[c] => /\ hPc[c] \notin InServeConn \cup {"exiting"}
                           /\ root[c] = NoRoot
                           /\ req[c] = "none"

\* C3 witness: a connection accepted while dying has been refused.
C3_Witness == \E c \in Conns : arrivedDying[c] /\ hPc[c] = "refused"

\* C4: the server is never dead with a request in flight, and a request in
\* flight ends in no other way than with the reply of its root.
C4_InFlightCompletesBeforeDead ==
    /\ [](Dead => \A c \in Conns : req[c] # "inflight")
    /\ [][\A c \in Conns :
            req[c] = "inflight" =>
                req'[c] \in {"inflight", RootReply(root[c])}]_vars

\* C4 witness: Stop() has been called and is blocked while a handler is in
\* conn.Close() with its request still in flight.
C4_Witness ==
    /\ stopPc = "waiting"
    /\ ~Dead
    /\ \E c \in Conns : hPc[c] = "closing" /\ req[c] = "inflight"

\* The terminal error: the ping error if mongoPinger returned one, else nil.
TerminalError == IF pingerErr = ErrPing THEN ErrPing ELSE NoError

\* C5: once Stop() has been called the server is dying; Stop() returns only
\* when the server is dead, with the terminal error (nil if no ping failed);
\* Wait() returns only when dead, with the same error.
C5_StopBlocksAndReports ==
    /\ stopPc # "idle" => Dying
    /\ stopPc = "returned" => Dead /\ stopResult = TerminalError
    /\ waitResult # "pending" => Dead /\ waitResult = TerminalError

\* C5 witness: Stop() and Wait() have both returned nil.
C5_Witness ==
    /\ stopPc = "returned"
    /\ stopResult = NoError
    /\ waitResult = NoError

\* C6: once a ping has failed the server is dying with the ping error as
\* its reason, and that error is what Stop() and Wait() return.
C6_PingFailureIsFatal ==
    pingerErr = ErrPing =>
        /\ Dying
        /\ tomb.reason = ErrPing
        /\ stopPc = "returned" => stopResult = ErrPing
        /\ waitResult # "pending" => waitResult = ErrPing

\* C6 witness: nobody called Stop(), the ping failed, Wait() returned its
\* error.
C6_Witness ==
    /\ stopPc = "idle"
    /\ pingerErr = ErrPing
    /\ waitResult = ErrPing

\* The Login requests being serviced, and those waiting for a slot.
ServicingLogins == {c \in LoginConns : loginPc[c] = "servicing"}
WaitingLogins == {c \in LoginConns : loginPc[c] = "waiting"}

\* C7: at most loginRateLimit Login requests are being serviced at any time,
\* over all connections, and srv.limiter counts exactly those.
C7_LoginAdmissionBound ==
    /\ Cardinality(ServicingLogins) <= loginRateLimit
    /\ limiter[SrvLimiter] = Cardinality(ServicingLogins)

\* C7 witness: loginRateLimit Logins are being serviced and a further one
\* has been issued.
C7_Witness ==
    /\ Cardinality(ServicingLogins) = loginRateLimit
    /\ WaitingLogins # {}

\* C8: a waiting Login can be admitted exactly when fewer than loginRateLimit
\* Logins are being serviced; it is never rejected (it stays waiting or is
\* serviced), and it is admitted only from a state with a free slot, that
\* is, with all slots taken, only after a Login being serviced has finished.
C8_FullLimiterBlocks ==
    /\ [](\A c \in LoginConns :
            loginPc[c] = "waiting" =>
                (ENABLED LoginAcquire(c)
                    <=> Cardinality(ServicingLogins) < loginRateLimit))
    /\ [][\A c \in LoginConns :
            loginPc[c] = "waiting" =>
                /\ loginPc'[c] \in {"waiting", "servicing"}
                /\ loginPc'[c] = "servicing" =>
                       Cardinality(ServicingLogins) < loginRateLimit]_vars

\* C8 witness: a Login is blocked: it waits and cannot be admitted.
C8_Witness ==
    \E c \in LoginConns : loginPc[c] = "waiting" /\ ~ENABLED LoginAcquire(c)

\* C9: no two connections have the same id, no id exceeds globalCounter, an
\* id once given never changes, and each id given is greater than every id
\* given before.
C9_IdsUniqueAndIncreasing ==
    /\ [](\A c, d \in Conns :
            c # d /\ connId[c] # 0 /\ connId[d] # 0 => connId[c] # connId[d])
    /\ [](\A c \in Conns : connId[c] <= globalCounter)
    /\ [][\A c \in Conns :
            connId'[c] # connId[c] =>
                /\ connId[c] = 0
                /\ \A d \in Conns : connId'[c] > connId[d]]_vars

\* C9 witness: two connections have ids, given in the opposite order of
\* their acceptance.
C9_Witness ==
    \E c, d \in Conns : c < d /\ 0 < connId[d] /\ connId[d] < connId[c]

\* C10 as stated: a served connection with a non-empty scope other than the
\* server's has the unknown-environment errRoot and every reply on it is
\* that error; one with the server's scope has the state server root.
C10_MismatchGetsUnknownEnvironment ==
    \A c \in Conns :
        root[c] # NoRoot =>
            /\ envUUID[c] \notin {"", ServerUUID} =>
                   /\ root[c] = ErrRootUnknownEnv
                   /\ req[c] \in {"none", "inflight", ErrRootUnknownEnv}
            /\ envUUID[c] = ServerUUID => root[c] = StateServerRoot

\* C10 amended: a served connection with a non-empty scope other than the
\* server's has an errRoot, of the unknown-environment error or of the
\* error of reading the environment, and every reply on it is that error;
\* one with the server's scope has the state server root or the errRoot of
\* the read error; the read error is given only while srv.environUUID is
\* unset, and once it is set the root is decided by the comparison alone.
C10_MismatchNeverServed ==
    /\ [](\A c \in Conns :
            root[c] # NoRoot =>
                /\ envUUID[c] \notin {"", ServerUUID} =>
                       /\ root[c] \in {ErrRootUnknownEnv, ErrRootEnvRead}
                       /\ req[c] \in {"none", "inflight", root[c]}
                /\ envUUID[c] = ServerUUID =>
                       /\ root[c] \in {StateServerRoot, ErrRootEnvRead}
                       /\ req[c] \in {"none", "inflight", RootReply(root[c])})
    /\ [][\A c \in Conns :
            root[c] = NoRoot /\ root'[c] # NoRoot =>
                /\ root'[c] = ErrRootEnvRead => srvEnvironUUID = ""
                /\ srvEnvironUUID # "" =>
                       root'[c] = RootOf(ValidateResult(envUUID[c],
                                                        srvEnvironUUID))]_vars

\* C10 witness: a request on a connection of another scope got the
\* unknown-environment error, one on a connection of the server's scope was
\* served.
C10_Witness ==
    \E c, d \in Conns :
        /\ envUUID[c] = OtherUUID /\ req[c] = ErrRootUnknownEnv
        /\ envUUID[d] = ServerUUID /\ req[d] = "served"

\* The connection has logged in: its notifier holds the tag of an entity.
Authenticated(c) == tag[c] \in Principals

\* C11 as stated: no request is served on a connection with an empty scope
\* once the connection has authenticated.
C11_NoAuthenticatedEmptyScope ==
    \A c \in Conns :
        (hPc[c] \in InServeConn /\ envUUID[c] = "" /\ Authenticated(c))
            => req[c] # "served"

\* C11 amended: the scope is checked once, when the connection is opened,
\* and an empty scope passes: a connection opened with an empty scope is
\* served the state server root, the root does not change afterwards, and
\* every request on it is answered by that root, before and after the
\* connection has authenticated.
C11_EmptyScopeAlwaysServed ==
    /\ [](\A c \in Conns :
            (hPc[c] \in {"serving", "closing"} /\ envUUID[c] = "")
                => root[c] = StateServerRoot)
    /\ [][\A c \in Conns : root[c] # NoRoot => root'[c] = root[c]]_vars
    /\ [][\A c \in Conns :
            (envUUID[c] = "" /\ req[c] = "inflight" /\ req'[c] # "inflight")
                => req'[c] = "served"]_vars

\* C11 witness: a connection with an empty scope has logged in and has had
\* a request served afterwards.
C11_Witness ==
    \E c \in Conns :
        /\ hPc[c] = "serving"
        /\ envUUID[c] = ""
        /\ Authenticated(c)
        /\ req[c] = "served"

\* C12: the principal is "<unknown>" from the notifier's creation until a
\* Login succeeds; a Login answered with success has set it; once set it
\* never changes; and no Login succeeds on a connection that has one.
C12_PrincipalSetOnce ==
    /\ [](\A c \in Conns :
            /\ hPc[c] \in {"joined", "added", "validate"}
                   => tag[c] = UnknownTag
            /\ req[c] = LoginOk => Authenticated(c))
    /\ [][\A c \in Conns :
            /\ (tag[c] = UnknownTag /\ tag'[c] # UnknownTag)
                   => (req'[c] = LoginOk /\ Authenticated(c)')
            /\ Authenticated(c)
                   => /\ tag'[c] = tag[c]
                      /\ req'[c] # req[c] => req'[c] # LoginOk]_vars

\* C12 witness: a connection has logged in and a second Login on it has
\* been rejected.
C12_Witness ==
    \E c \in Conns : Authenticated(c) /\ req[c] = LoginAlready

\* C13: a step of a handler that serves a connection (a failing transport,
\* the return of serveConn with its error) leaves the tomb and every other
\* connection as they are; and the tomb's reason is never an error other
\* than the one mongoPinger returned.
C13_ConnectionErrorIsLocal ==
    /\ [](tomb.reason \notin {ErrStillAlive, NoError}
            => (tomb.reason = ErrPing /\ pingerErr = ErrPing))
    /\ [][\A c \in Conns :
            (hPc[c] \in InServeConn /\ hPc'[c] # hPc[c])
                => /\ tomb' = tomb
                   /\ lisClosed' = lisClosed
                   /\ \A d \in Conns \ {c} :
                          /\ hPc'[d] = hPc[d]
                          /\ root'[d] = root[d]
                          /\ req'[d] = req[d]]_vars

\* C13 witness: the server is alive, one connection was served and has
\* terminated, another is still being served.
C13_Witness ==
    /\ Alive
    /\ \E c, d \in Conns :
          /\ hPc[c] = "left" /\ root[c] = StateServerRoot
          /\ hPc[d] = "serving"

\* Positions of run and of its two goroutines, in the order they are passed.
RunRank(pc) ==
    CASE pc = "start" -> 0 [] pc = "closerStarted" -> 1 [] pc = "serve" -> 2
      [] pc = "wait" -> 3 [] pc = "waited" -> 4 [] pc = "done" -> 5
TaskRank(pc) ==
    CASE pc = "none" -> 0 [] pc \in {"waiting", "select", "ping"} -> 1
      [] pc \in {"closed", "killed"} -> 2 [] pc = "done" -> 3

\* C14: dead implies dying, dying implies not alive; dying, dead and not
\* alive are each kept by every step; a Kill(nil) on a dying server changes
\* nothing; and run and its two goroutines never go back to an earlier
\* position.
C14_LifecycleOnlyForward ==
    /\ [](Dead => Dying)
    /\ [](Dying => ~Alive)
    /\ [](Dying => TombKill(tomb, NoError) = tomb)
    /\ [][/\ Dying => Dying'
          /\ Dead => Dead'
          /\ ~Alive => ~Alive'
          /\ RunRank(runPc') >= RunRank(runPc)
          /\ TaskRank(closerPc') >= TaskRank(closerPc)
          /\ TaskRank(pingerPc') >= TaskRank(pingerPc)]_vars

\* C14 witness: the server is dead, killed both by Stop() and by a failed
\* ping, and Kill() can still be called.
C14_Witness ==
    /\ Dead
    /\ stopPc = "returned"
    /\ tomb.reason = ErrPing
    /\ ENABLED KillCall

C16_NewServerFailsOrStartsRun ==
    /\ newSrv.pc = "returned" =>
          /\ ~newSrv.addrFree => newSrv.result = ErrListen
          /\ (newSrv.addrFree /\ ~newSrv.certValid)
                 => newSrv.result = ErrKeyPair
          /\ (newSrv.addrFree /\ newSrv.certValid)
                 => (HasServer /\ runPc # "none")
    /\ ~HasServer =>
          /\ runPc = "none"
          /\ closerPc = "none"
          /\ pingerPc = "none"
          /\ Alive /\ ~Dying /\ ~Dead
          /\ stopPc = "idle"

\* C16 witness: the address was bound, the key pair was invalid and
\* NewServer has returned its error.
C16_Witness ==
    /\ newSrv.pc = "returned"
    /\ newSrv.lis = "bound"
    /\ newSrv.result = ErrKeyPair

\* The calls of SetMeterStatus that have returned, and the errors a call
\* returns for a conflict or for a document that is not there.
Returned(w) == wPc[w] = "done"
ConflictOrNotFound == {ErrExcessiveContention, ErrUnitNotFound, ErrDocNotFound}
StoredPair == <<meterDoc.code, meterDoc.info>>

\* C17: the attempt starts at 0 and changes only by one, on a commit whose
\* assertions fail, which writes nothing; the builder is invoked again only
\* for attempts below MaxAttempts; and a call returns the conflict error
\* only after MaxAttempts aborted commits, having written nothing.
C17_RetryWithAttemptUpToBound ==
    /\ [](\A w \in Writers :
            /\ wAttempt[w] \in 0..MaxAttempts
            /\ wPc[w] \in {"idle", "read"} => wAttempt[w] = 0
            /\ wPc[w] \in {"refresh", "reread"}
                   => wAttempt[w] \in 1..(MaxAttempts - 1)
            /\ wResult[w] = ErrExcessiveContention
                   => (wAttempt[w] = MaxAttempts /\ ~wWrote[w]))
    /\ [][\A w \in Writers :
            wAttempt'[w] # wAttempt[w] =>
                /\ wAttempt'[w] = wAttempt[w] + 1
                /\ wPc[w] = "commit"
                /\ ~(unitLife = "alive" /\ meterDoc # Missing)
                /\ meterDoc' = meterDoc
                /\ wPc'[w] = "refresh" \/ wResult'[w] = ErrExcessiveContention
           ]_vars

\* C17 witness: a call has returned the conflict error after MaxAttempts
\* attempts, on a unit that is still there.
C17_Witness ==
    \E w \in Writers :
        /\ Returned(w)
        /\ wResult[w] = ErrExcessiveContention
        /\ wAttempt[w] = MaxAttempts
        /\ unitLife = "dying"

\* C18: when two calls with the same valid arguments have returned and the
\* unit is alive, both returned nil within the bound and the document holds
\* their pair unless a later call changed it; and a rebuilt attempt that
\* reads its pair in the document returns nil without writing.
C18_SameUpdateConverges ==
    /\ [](\A w, v \in Writers :
            (/\ w # v
             /\ Returned(w) /\ Returned(v)
             /\ wTarget[w] = wTarget[v]
             /\ ValidCode(wTarget[w][1])
             /\ unitLife = "alive")
                => /\ wResult[w] = NoError /\ wResult[v] = NoError
                   /\ wAttempt[w] < MaxAttempts /\ wAttempt[v] < MaxAttempts
                   /\ \/ StoredPair = wTarget[w]
                      \/ \E x \in Writers \ {w, v} : wWrote[x])
    /\ [][\A w \in Writers :
            (wPc[w] = "reread" /\ StoredPair = wTarget[w]
             /\ wPc'[w] # wPc[w])
                => /\ wResult'[w] = NoError
                   /\ wPc'[w] = "done"
                   /\ meterDoc' = meterDoc]_vars

\* C18 witness: two calls with the same arguments raced, both committed
\* and both returned nil, on an alive unit.
C18_Witness ==
    \E w, v \in Writers :
        /\ w # v
        /\ wTarget[w] = wTarget[v]
        /\ Returned(w) /\ Returned(v)
        /\ wWrote[w] /\ wWrote[v]
        /\ wResult[w] = NoError /\ wResult[v] = NoError
        /\ unitLife = "alive"

\* C19 as stated: a call one of whose commits was refused (the unit was
\* not alive, or its documents were gone) returns a conflict or not-found
\* error.
C19_RefusedUpdateReturnsError ==
    \A w \in Writers :
        (Returned(w) /\ wAttempt[w] > 0) => wResult[w] \in ConflictOrNotFound

\* C19 amended: the meter status document is updated only by a commit made
\* while the unit is alive; a call one of whose commits was refused has
\* written nothing, and it returns a conflict or not-found error, or nil
\* when its re-read found its pair already stored by another call.
C19_NoUpdateUnlessAlive ==
    /\ [][(meterDoc' # meterDoc /\ meterDoc' # Missing)
            => unitLife = "alive" /\ unitLife' = "alive"]_vars
    /\ [](\A w \in Writers :
            (Returned(w) /\ wAttempt[w] > 0) =>
                /\ ~wWrote[w]
                /\ unitLife # "alive"
                /\ \/ wResult[w] \in ConflictOrNotFound
                   \/ /\ wResult[w] = NoError
                      /\ \E v \in Writers \ {w} :
                             wWrote[v] /\ wTarget[v] = wTarget[w])

\* C19 witness: the unit has been removed; one call found it dying on all
\* its attempts and returned the conflict error, another found it removed
\* and returned not found.
C19_Witness ==
    /\ unitLife = "removed"
    /\ \E w, v \in Writers :
          /\ Returned(w) /\ wResult[w] = ErrExcessiveContention
          /\ Returned(v) /\ wResult[v] = ErrUnitNotFound

\* C20: the stored pair is the pair the document was created with or, in
\* full, the pair of a call that has written; and when two calls with
\* different pairs have both returned nil and nobody else wrote, it is the
\* pair of one of the two.
C20_StoredPairIsOneInput ==
    /\ meterDoc # Missing =>
          \/ StoredPair = <<MeterNotSet, "">>
          \/ \E w \in Writers : wWrote[w] /\ StoredPair = wTarget[w]
    /\ \A w, v \in Writers :
          (/\ w # v
           /\ Returned(w) /\ wResult[w] = NoError
           /\ Returned(v) /\ wResult[v] = NoError
           /\ meterDoc # Missing
           /\ \A x \in Writers \ {w, v} : ~wWrote[x])
              => StoredPair \in {wTarget[w], wTarget[v]}

\* C20 witness: two calls with different codes and different infos have
\* both written and returned.
C20_Witness ==
    \E w, v \in Writers :
        /\ wTarget[w][1] # wTarget[v][1]
        /\ wTarget[w][2] # wTarget[v][2]
        /\ wWrote[w] /\ wWrote[v]
        /\ Returned(w) /\ Returned(v)

\* C21 as stated: when the first commits of a GREEN call and of an AMBER
\* call are both pending on the alive unit and one of them is applied, the
\* other is refused: the assertions of its operations no longer hold.
C21_LoserGetsConflict ==
    [][\A w, v \in Writers :
          (/\ w # v
           /\ {wTarget[w][1], wTarget[v][1]} = {MeterGreen, MeterAmber}
           /\ wPc[w] = "commit" /\ wAttempt[w] = 0
           /\ wPc[v] = "commit" /\ wAttempt[v] = 0
           /\ unitLife = "alive"
           /\ wWrote'[w] /\ ~wWrote[w])
              => ~OpAssertsHold(unitLife', meterDoc')]_vars

\* C21 amended: on an alive unit no commit is refused: it is applied at
\* the attempt it was made in and the document then holds its pair, so that
\* of a GREEN call and an AMBER call that have both returned on the alive
\* unit both returned nil at attempt 0 and the document holds the pair of
\* one of them; a call invoked again with attempt > 0 decides on the
\* document as it is then: it returns nil without writing when the
\* document holds its pair and commits its own write otherwise.
C21_BothFirstCommitsApply ==
    /\ [][\A w \in Writers :
            (wPc[w] = "commit" /\ wPc'[w] # "commit" /\ unitLife = "alive")
                => /\ wWrote'[w]
                   /\ <<meterDoc'.code, meterDoc'.info>> = wTarget[w]
                   /\ wAttempt'[w] = wAttempt[w]
                   /\ wResult'[w] = NoError]_vars
    /\ [](\A w, v \in Writers :
            (/\ w # v
             /\ {wTarget[w][1], wTarget[v][1]} = {MeterGreen, MeterAmber}
             /\ Returned(w) /\ Returned(v)
             /\ unitLife = "alive")
                => /\ wResult[w] = NoError /\ wResult[v] = NoError
                   /\ wAttempt[w] = 0 /\ wAttempt[v] = 0
                   /\ wWrote[w] \/ wWrote[v]
                   /\ \/ StoredPair \in {wTarget[w], wTarget[v]}
                      \/ \E x \in Writers \ {w, v} : wWrote[x])
    /\ [][\A w \in Writers :
            (wPc[w] = "reread" /\ wPc'[w] # wPc[w] /\ meterDoc # Missing)
                => /\ wAttempt[w] > 0
                   /\ meterDoc' = meterDoc
                   /\ IF StoredPair = wTarget[w]
                      THEN wPc'[w] = "done" /\ wResult'[w] = NoError
                      ELSE wPc'[w] = "commit"]_vars

\* C21 witness: a GREEN call and an AMBER call have both committed at
\* attempt 0 on the alive unit and returned; the document holds the pair
\* of the second.
C21_Witness ==
    \E w, v \in Writers :
        /\ wTarget[w][1] = MeterGreen /\ wTarget[v][1] = MeterAmber
        /\ wWrote[w] /\ wWrote[v]
        /\ wAttempt[w] = 0 /\ wAttempt[v] = 0
        /\ Returned(w) /\ Returned(v)
        /\ unitLife = "alive"
        /\ StoredPair = wTarget[v]

\* The document SetMeterStatusOnAllUnits sets, and the units of its
\* transaction all of whose assertions hold.
BulkDoc == [code |-> bulkArg[1], info |-> bulkArg[2]]
BulkAssertsHold ==
    \A u \in bulkUnits : OpAssertsHold(unitsC[u], meterStatusC[u])

\* C22: the commit of SetMeterStatusOnAllUnits over its units changes the
\* meter status document of every one of them, and returns nil, when every
\* unit is alive and has its document; otherwise it changes no document and
\* returns the error; and in no state do only some of the units' documents
\* hold the new status.
C22_BulkAllOrNothing ==
    /\ [][(bulkPc = "commit" /\ bulkPc' = "done" /\ bulkUnits # {})
            => IF BulkAssertsHold
               THEN /\ \A u \in bulkUnits : meterStatusC'[u] = BulkDoc
                    /\ \A u \in Units \ bulkUnits :
                           meterStatusC'[u] = meterStatusC[u]
                    /\ bulkResult' = NoError
               ELSE /\ meterStatusC' = meterStatusC
                    /\ bulkResult' = ErrAborted]_vars
    /\ [](\A u, v \in bulkUnits :
            (meterStatusC[u] # Missing /\ meterStatusC[v] # Missing)
                => (meterStatusC[u] = BulkDoc <=> meterStatusC[v] = BulkDoc))
    /\ []((\E u \in Units : meterStatusC[u] = BulkDoc)
            => bulkResult = NoError)

\* C22 witness: the transaction held the operations of two or more units,
\* one alive and one dead; it was aborted and the alive unit's document is
\* as it was.
C22_Witness ==
    /\ bulkPc = "done"
    /\ bulkResult = ErrAborted
    /\ Cardinality(bulkUnits) >= 2
    /\ \E u, v \in bulkUnits :
          /\ unitsC[u] = "alive" /\ unitsC[v] = "dead"
          /\ meterStatusC[u] = [code |-> MeterNotSet, info |-> ""]
          /\ meterStatusC[v] # Missing

\* C26: when SetMeterStatusOnAllUnits has built no operation (there was no
\* unit), it sends no transaction to the store, changes no document and
\* returns nil.
C26_EmptyOpsShortCircuit ==
    /\ [][(bulkPc = "commit" /\ bulkPc' = "done" /\ bulkUnits = {})
            => /\ bulkTrips' = bulkTrips
               /\ meterStatusC' = meterStatusC
               /\ unitsC' = unitsC
               /\ bulkResult' = NoError]_vars
    /\ []((bulkPc = "done" /\ bulkUnits = {} /\ bulkResult # ErrStoreRead)
            => bulkResult = NoError /\ bulkTrips = 0)

\* C26 witness: every unit had been removed when the call read the units;
\* it has returned nil without a transaction.
C26_Witness ==
    /\ bulkPc = "done"
    /\ bulkResult = NoError
    /\ bulkUnits = {}
    /\ AllUnits = {}
    /\ bulkTrips = 0

\* C23: a read of an id that has no document returns no networks and no
\* error, unless the query failed; a query that failed otherwise has its
\* error returned; a read of an id that has a document returns the
\* networks stored in it and no error; and no read changes the collection.
C23_ReadRequestedNetworks ==
    [][netRead' # netRead =>
          LET r == netRead'
              doc == requestedNetworks[r.id]
          IN /\ requestedNetworks' = requestedNetworks
             /\ r.found \in {ErrNotFound, ErrQuery, NoError}
             /\ r.found = ErrNotFound
                    => ~doc.exists /\ r.networks = <<>> /\ r.err = NoError
             /\ r.found = ErrQuery => r.err = ErrQuery
             /\ r.found = NoError
                    => /\ doc.exists
                       /\ r.networks = doc.networks
                       /\ r.err = NoError
             /\ ~doc.exists => r.found # NoError]_vars

\* C23 witness: the machine has no document, the service has one with two
\* networks, and a read of the machine has returned no networks and no
\* error.
C23_Witness ==
    /\ ~requestedNetworks["m#0"].exists
    /\ requestedNetworks["s#wordpress"].networks = <<"net1", "net2">>
    /\ netRead.id = "m#0"
    /\ netRead.found = ErrNotFound
    /\ netRead.networks = <<>>
    /\ netRead.err = NoError

\* C25 as stated: whenever a read has found no document and returned no
\* data, the log holds an entry for its id.
C25_LegacyBranchLogged ==
    (netRead.found = ErrNotFound /\ netRead.err = NoError)
        => netRead.id \in netLog

\* C24 as stated: the error value of no call of run or of the Handler is
\* dropped: it is returned, recorded as the reason of the tomb, or logged.
C24_NoErrorSwallowed ==
    \A e \in ErrSources : errRoute[e].seen => errRoute[e].to # {}

\* C24 amended: the error values dropped are those of http.Serve and of
\* lis.Close, and no other: the error of mongoPinger is logged and is the
\* reason of the tomb, the error of serveConn is logged.
C24_OnlyAcceptLoopErrorsDropped ==
    /\ \A e \in ErrSources :
          errRoute[e].seen =>
              /\ errRoute[e].to \subseteq ErrRoutes
              /\ errRoute[e].to = {} <=> e \in {"http.Serve", "lis.Close"}
    /\ errRoute["mongoPinger"].seen =>
          /\ errRoute["mongoPinger"].to = {"logged", "cause"}
          /\ tomb.reason = ErrPing
    /\ errRoute["serveConn"].seen => errRoute["serveConn"].to = {"logged"}

\* C24 witness: the server is dead after a failed ping; a connection was
\* served and closed; all four calls have returned.
C24_Witness ==
    /\ Dead
    /\ tomb.reason = ErrPing
    /\ \A e \in ErrSources : errRoute[e].seen
    /\ \E c \in Conns : hPc[c] = "left" /\ root[c] = StateServerRoot

C28_SendInRounds ==
    /\ [][(snd.pc = "fetch" /\ snd'.pc # "fetch") =>
            /\ snd'.got \subseteq Unsent
            /\ Cardinality(snd'.got) = Min(snd.n, CountofUnsentMetrics)
            /\ metricsC' = metricsC]_vars
    /\ []((snd.pc # "idle" /\ Stored = snd.all) =>
            /\ Unsent \subseteq snd.orig
            /\ snd.rounds * snd.n >= Cardinality(snd.orig)
                   => Unsent = {}
            /\ snd.rounds * snd.n < Cardinality(snd.orig)
                   => Cardinality(Unsent)
                          = Cardinality(snd.orig) - snd.rounds * snd.n
            /\ snd.pc = "done"
                   => /\ snd.rounds = CeilDiv(Cardinality(snd.orig), snd.n)
                      /\ snd.got = {}
                      /\ Unsent = {})

\* C28 witness: three batches were stored, all unsent, when the sender
\* began with n = 2; after two rounds MetricsToSend(2) has returned
\* nothing.
C28_Witness ==
    /\ snd.pc = "done"
    /\ snd.n = 2
    /\ Cardinality(snd.orig) = 3
    /\ snd.rounds = 2
    /\ Stored = snd.all

\* The sequence holds the names of the set, each once, in sorted order.
IsSortedListOf(names, S) ==
    /\ {names[i] : i \in 1..Len(names)} = S
    /\ Len(names) = Cardinality(S)
    /\ \A i, j \in 1..Len(names) : i < j => LexLess(names[i], names[j])

\* C30: the files every client reads and writes are the map made by the
\* Puts, Removes and RemoveAlls of all the clients; Get by any client
\* returns the contents of the last Put of the name, or not found when the
\* name is absent from the map; List returns the names of the map that
\* start with the prefix, each once and in sorted order; and Remove of an
\* absent name returns no error and changes nothing.
C30_SharedNameToContentsMap ==
    /\ [](\A cl \in Clients : files[StoreOf(cl)] = shadow)
    /\ [][lastOp' # lastOp =>
            LET r == lastOp'
            IN /\ r.op = "Get" =>
                     IF shadow[r.name].exists
                     THEN r.err = NoError /\ r.data = shadow[r.name].data
                     ELSE r.err = ErrFileNotFound
               /\ r.op = "List" =>
                     /\ r.err = NoError
                     /\ IsSortedListOf(r.names,
                            {n \in Names : /\ shadow[n].exists
                                           /\ HasPrefix(n, r.name)})
               /\ (r.op = "Remove" /\ ~shadow[r.name].exists) =>
                     r.err = NoError /\ files' = files]_vars

\* C30 witness: a client has got the contents another client put, while
\* the two names under "zzz/" are stored and "aa" has been removed.
C30_Witness ==
    /\ lastOp.op = "Get"
    /\ lastOp.err = NoError
    /\ lastOp.data = "File contents."
    /\ shadow[lastOp.name].by # lastOp.client
    /\ {n \in Names : shadow[n].exists}
          = {n \in Names : HasPrefix(n, <<"z", "z", "z", "/">>)}

\* C31: a call returns nil from its first read, without a transaction,
\* exactly when the document then holds its pair; a rebuilt attempt comes
\* to its re-read by the refresh of the unit and with attempt > 0, and
\* returns nil from it, without a transaction, exactly when the document
\* then holds its pair; neither writes, and a call that has returned nil
\* without having written found its pair stored by the creation of the
\* document or by another call.
C31_NoWriteWhenAlreadySet ==
    /\ [][\A w \in Writers :
            (wPc[w] \in {"read", "reread"} /\ wPc'[w] # wPc[w]
             /\ meterDoc # Missing)
                => /\ meterDoc' = meterDoc
                   /\ wWrote'[w] = wWrote[w]
                   /\ wAttempt'[w] = wAttempt[w]
                   /\ IF StoredPair = wTarget[w]
                      THEN wPc'[w] = "done" /\ wResult'[w] = NoError
                      ELSE wPc'[w] = "commit" /\ wResult'[w] = "pending"]_vars
    /\ [][\A w \in Writers :
            (wPc'[w] = "reread" /\ wPc[w] # "reread")
                => wPc[w] = "refresh" /\ wAttempt[w] > 0]_vars
    /\ [](\A w \in Writers :
            (Returned(w) /\ wResult[w] = NoError /\ ~wWrote[w])
                => \E v \in Writers \ {w} :
                       wWrote[v] /\ wTarget[v] = wTarget[w])

\* C31 witness: a call whose commit was refused has re-read the document,
\* found the pair another call had stored, and returned nil without
\* having written.
C31_Witness ==
    \E w, v \in Writers :
        /\ w # v
        /\ Returned(w) /\ wResult[w] = NoError
        /\ wAttempt[w] > 0 /\ ~wWrote[w]
        /\ wWrote[v] /\ wTarget[v] = wTarget[w]
        /\ StoredPair = wTarget[w]

\* C32: when a rebuilt attempt finds, at its refresh, that the unit has
\* been removed, the call returns the error of the refresh in that step:
\* the attempt is not counted up and nothing is written, by it or later;
\* and a call returns that error only so, from a rebuilt attempt on the
\* removed unit, never having written.
C32_NotFoundNotRetried ==
    /\ [][\A w \in Writers :
            (wPc[w] = "refresh" /\ wPc'[w] # "refresh"
             /\ unitLife = "removed")
                => /\ wPc'[w] = "done"
                   /\ wResult'[w] = ErrUnitNotFound
                   /\ wAttempt'[w] = wAttempt[w]
                   /\ meterDoc' = meterDoc
                   /\ ~wWrote'[w]]_vars
    /\ [](\A w \in Writers :
            wResult[w] = ErrUnitNotFound
                => /\ Returned(w)
                   /\ unitLife = "removed"
                   /\ wAttempt[w] \in 1..(MaxAttempts - 1)
                   /\ ~wWrote[w])
    /\ [][\A w \in Writers :
            Returned(w) => /\ wPc'[w] = "done"
                           /\ wResult'[w] = wResult[w]
                           /\ wAttempt'[w] = wAttempt[w]]_vars

\* C32 witness: the unit was removed after a first refused commit; the
\* call has returned the error of the refresh after one attempt, while
\* the bound allowed more.
C32_Witness ==
    \E w \in Writers :
        /\ Returned(w)
        /\ wResult[w] = ErrUnitNotFound
        /\ wAttempt[w] = 1
        /\ MaxAttempts > 2

\* C33: a step changes the requested-networks document of an id only by
\* inserting it where there was none, with createRequestedNetworksOp, or
\* by removing it, with removeRequestedNetworksOp; a create for an id that
\* has a document is aborted and changes nothing; so the networks of a
\* document that is there before and after a step are the same.
C33_RequestedNetworksImmutable ==
    /\ [][\A id \in NetIds :
            requestedNetworks'[id] # requestedNetworks[id] =>
                /\ netTxn'.id = id
                /\ \/ /\ ~requestedNetworks[id].exists
                      /\ requestedNetworks'[id].exists
                      /\ netTxn'.op = "create" /\ netTxn'.err = NoError
                   \/ /\ requestedNetworks[id].exists
                      /\ ~requestedNetworks'[id].exists
                      /\ netTxn'.op = "remove"]_vars
    /\ [][(netTxn' # netTxn /\ netTxn'.op = "create"
           /\ requestedNetworks[netTxn'.id].exists)
              => /\ netTxn'.err = ErrTxnAborted
                 /\ requestedNetworks' = requestedNetworks]_vars
    /\ [][\A id \in NetIds :
            (requestedNetworks[id].exists /\ requestedNetworks'[id].exists)
                => requestedNetworks'[id].networks
                       = requestedNetworks[id].networks]_vars

\* C33 witness: a create for the service, whose document holds two
\* networks, has been aborted.
C33_Witness ==
    /\ netTxn = [op |-> "create", id |-> "s#wordpress",
                 err |-> ErrTxnAborted]
    /\ requestedNetworks["s#wordpress"] =
          [exists |-> TRUE, networks |-> <<"net1", "net2">>]

\* The names of the calls a caller has made, in order.
CallNames(c) == [i \in 1..Len(charm[c].calls) |-> charm[c].calls[i].call]
\* The error of the last call a caller has made.
LastCallErr(c) == charm[c].calls[Len(charm[c].calls)].err
CsSequence == <<"AddCharm", "authorize", "AddCharmWithAuthorization">>
LocalSequence == <<"repo.Get", "AddLocalCharm">>
IsPrefix(a, b) == Len(a) <= Len(b) /\ a = SubSeq(b, 1, Len(a))

\* C34: for a "cs" URL AddCharmViaAPI calls AddCharm once; it calls
\* authorize only after AddCharm failed with an unauthorized code and
\* AddCharmWithAuthorization, once, only after authorize succeeded; any
\* other AddCharm error, an authorize error and an error of the authorized
\* call are returned (masked) with no further call; a "local" URL is
\* fetched from the repository and uploaded, the URL returned being the
\* one AddLocalCharm answered; any other schema returns the
\* unsupported-schema error with no call made.
C34_AddCharmViaAPI ==
    \A c \in Callers :
        LET p == charm[c]
            n == Len(p.calls)
        IN  /\ p.curl.schema = "cs" =>
                /\ IsPrefix(CallNames(c), CsSequence)
                /\ p.pc # "AddCharm" => n >= 1
                /\ n >= 2 => p.calls[1].err.code = CodeUnauthorized
                /\ n = 3 => p.calls[2].err = NilErr
                /\ p.pc = "done" =>
                      /\ n = 1 => p.calls[1].err.code # CodeUnauthorized
                      /\ p.err = Mask(LastCallErr(c))
                      /\ p.info = (LastCallErr(c) = NilErr)
                      /\ p.info => p.result = p.curl
                /\ p.pc = "authorize" => n = 1
                /\ p.pc = "AddCharmWithAuthorization" => n = 2
            /\ p.curl.schema = "local" =>
                /\ IsPrefix(CallNames(c), LocalSequence)
                /\ n = 2 => p.calls[1].err = NilErr
                /\ p.pc = "done" =>
                      /\ n >= 1
                      /\ p.err = LastCallErr(c)
                      /\ p.info = (n = 2 /\ p.err = NilErr)
                      /\ p.info => p.result.schema = "local"
            /\ (p.pc # "idle" /\ p.curl.schema \notin {"cs", "local"}) =>
                /\ p.pc = "done"
                /\ p.calls = <<>>
                /\ p.err = ErrUnsupportedSchema
                /\ ~p.info
            /\ ~p.info => p.result = NoURL

\* C34 witness: one caller has added a charm-store charm with a macaroon
\* after an unauthorized AddCharm, the other was refused a "bzr" URL.
C34_Witness ==
    \E c, d \in Callers :
        /\ charm[c].pc = "done" /\ charm[c].info
        /\ CallNames(c) = CsSequence
        /\ charm[c].calls[1].err = ErrUnauthorizedCharm
        /\ charm[d].pc = "done" /\ charm[d].curl.schema = "bzr"
        /\ charm[d].err = ErrUnsupportedSchema

\* C35: the terminal error is the first non-nil cause given to a kill: once
\* the health check has failed the cause is its error, whether Stop() or
\* Kill() was called before that or not, and a ping that fails while
\* Stop() waits records its error; a recorded non-nil cause is never
\* replaced; the health check returning because the server is dying
\* leaves the tomb as it is; Stop() and Wait() return the ping error
\* exactly when a ping has failed.
C35_FirstNonNilCauseWins ==
    /\ [](pingerErr = ErrPing => tomb.reason = ErrPing)
    /\ [][(stopPc # "idle" /\ Dying /\ pingerPc = "ping"
           /\ pingerErr' = ErrPing) => tomb'.reason = ErrPing]_vars
    /\ [][tomb.reason \notin {ErrStillAlive, NoError}
             => tomb'.reason = tomb.reason]_vars
    /\ [][(pingerErr # ErrDying /\ pingerErr' = ErrDying)
             => (Dying /\ tomb' = tomb)]_vars
    /\ [](stopPc = "returned"
             => stopResult = IF pingerErr = ErrPing THEN ErrPing
                             ELSE NoError)
    /\ [](waitResult # "pending"
             => waitResult = IF pingerErr = ErrPing THEN ErrPing
                             ELSE NoError)

\* C35 witness: Stop() has returned the error of a ping that failed.
C35_Witness ==
    /\ stopPc = "returned"
    /\ stopResult = ErrPing
    /\ pingerErr = ErrPing
    /\ Dead

\* C36: under fair scheduling, with every ping and every conn.Close()
\* returning, a dying Server becomes dead: the listener is closed, run, the
\* listener-closing goroutine and the health check have finished, and
\* every connection handler has closed its connection and left.
C36_DyingLeadsToDead ==
    /\ Dying ~> Dead
    /\ Dying ~> (/\ lisClosed
                 /\ runPc = "done" /\ closerPc = "done" /\ pingerPc = "done"
                 /\ \A c \in Conns : hPc[c] \in {"idle", "left"})

\* C36 witness: the Server is dead after it was killed with every
\* connection being served: each handler saw dying in its select (it was
\* not accepted while dying, and it has left after serving).
C36_Witness ==
    /\ Dead
    /\ pingerErr = ErrDying
    /\ \A c \in Conns : hPc[c] = "left" /\ ~arrivedDying[c] /\ root[c] # NoRoot

\* C37 as stated: when NewServer has returned the error of the key pair,
\* the listener it bound in the same call is no longer bound.  NewServer
\* returns at once on that error and never closes the listener.
C37_ListenerReleasedOnKeyPairError ==
    (newSrv.pc = "returned" /\ newSrv.result = ErrKeyPair)
        => newSrv.lis # "bound"

C39_InvalidCodeRejectedFirst ==
    /\ [][\A w \in Writers :
            (wPc[w] = "idle" /\ wPc'[w] # "idle"
             /\ wTarget'[w][1] \notin {MeterGreen, MeterAmber, MeterRed})
                => /\ wPc'[w] = "done"
                   /\ wResult'[w] = ErrInvalidCode
                   /\ meterDoc' = meterDoc
                   /\ unitLife' = unitLife
                   /\ wAttempt'[w] = 0
                   /\ ~wWrote'[w]]_vars
    /\ [](\A w \in Writers :
            (wPc[w] # "idle"
             /\ wTarget[w][1] \notin {MeterGreen, MeterAmber, MeterRed})
                => /\ wPc[w] = "done"
                   /\ wResult[w] = ErrInvalidCode
                   /\ wAttempt[w] = 0
                   /\ ~wWrote[w])
    /\ [](\A w \in Writers :
            wResult[w] = ErrInvalidCode =>
                wTarget[w][1] \notin {MeterGreen, MeterAmber, MeterRed})

\* C39 witness: one call with "NOT SET" and one with "NOT AVAILABLE" have
\* returned the error, and the document is as it was created.
C39_Witness ==
    \E w, v \in Writers :
        /\ wPc[w] = "done" /\ wTarget[w][1] = MeterNotSet
        /\ wResult[w] = ErrInvalidCode
        /\ wPc[v] = "done" /\ wTarget[v][1] = MeterNotAvailable
        /\ wResult[v] = ErrInvalidCode
        /\ meterDoc = [code |-> MeterNotSet, info |-> ""]

\* C40 as stated: every step of a setter that changes a meter status
\* document leaves in it one of the codes GREEN, AMBER and RED, for the
\* document SetMeterStatus writes and for those SetMeterStatusOnAllUnits
\* writes.  SetMeterStatusOnAllUnits converts its codeRaw without
\* validating it, so the transaction stores whatever code it was given.
C40_OnlyValidCodesWritten ==
    /\ [][(meterDoc' # meterDoc /\ meterDoc' # Missing)
             => meterDoc'.code \in {MeterGreen, MeterAmber, MeterRed}]_vars
    /\ [][\A u \in Units :
            (meterStatusC'[u] # meterStatusC[u]
             /\ meterStatusC'[u] # Missing)
                => meterStatusC'[u].code
                       \in {MeterGreen, MeterAmber, MeterRed}]_vars

====
